---- MODULE Spec2Model ----
(***************************************************************************)
(* Braze -> Transifex sync engine (src/sync_logic.py): one run of          *)
(* sync_logic_main with its nested helpers and perform_tmx_backup, against *)
(* a Source (Braze) that serves fixed data and a Target (Transifex) that   *)
(* keeps resources, their names and their uploaded content.                *)
(***************************************************************************)
EXTENDS Integers, Sequences, FiniteSets, TLC

\* ---------------------------------------------------------------- bounds
MaxItems == 2        \* items listed per Source collection
MaxPending == 2      \* "pending" answers of a backup job that completes
MaxRuns == 2         \* runs of sync_logic_main in SpecTwice
MaxPages == 2        \* full pages of the longest Source collection in SpecPages

\* ------------------------------------------------------ program constants
PageLimit == 100            \* fetch_braze_list(limit=100)
PollDeadline == 300         \* timeout = time.time() + 300
InitialPollInterval == 5    \* poll_interval = 5
MaxPollInterval == 30       \* max_poll_interval = 30
RequestTimeout == 30        \* transifex_session.get(status_url, timeout=30)

\* ------------------------------------------------------- values and text
\* A JSON value of a details response: null, or a string (a sequence of
\* characters).
Null == [null |-> TRUE, s |-> <<>>]
Str(s) == [null |-> FALSE, s |-> s]

Whitespace == {" ", "\t", "\n"}

RECURSIVE LStrip(_)
LStrip(s) == IF s # <<>> /\ Head(s) \in Whitespace THEN LStrip(Tail(s)) ELSE s

RECURSIVE RStrip(_)
RStrip(s) ==
    IF s # <<>> /\ s[Len(s)] \in Whitespace
    THEN RStrip(SubSeq(s, 1, Len(s) - 1))
    ELSE s

\* str.strip()
Strip(s) == RStrip(LStrip(s))

\* bool(v) of None or of a str
Truthy(v) == ~v.null /\ v.s # <<>>

\* str(v)
PyStr(v) == IF v.null THEN <<"N", "o", "n", "e">> ELSE v.s

\* dict.get(f): None for a missing key
Get(d, f) == IF f \in DOMAIN d THEN d[f] ELSE Null

\* `not x` of an id or a name: None ("<None>") or the empty string
NoneVal == "<None>"
Missing(x) == x \in {NoneVal, ""}

EMAIL_TRANSLATABLE_FIELDS == {"subject", "preheader", "body"}
BLOCK_TRANSLATABLE_FIELDS == {"content"}

Fields(ph) ==
    IF ph = 1 THEN EMAIL_TRANSLATABLE_FIELDS ELSE BLOCK_TRANSLATABLE_FIELDS

\* Mutant: the filter without the strip().
Keep_NoStrip(v) == Truthy(v)

\* the comprehension's filter: details.get(f) and str(details.get(f)).strip()
Keep(v) == Truthy(v) /\ Strip(PyStr(v)) # <<>>

\* Mutant: the payload carries the trimmed values.
ContentOf_Trimmed(d, ph) ==
    [f \in {g \in Fields(ph) : Keep(Get(d, g))} |-> Str(Strip(PyStr(Get(d, f))))]

\* {f: details.get(f) for f in FIELDS if details.get(f) and str(...).strip()}
ContentOf(d, ph) ==
    [f \in {g \in Fields(ph) : Keep(Get(d, g))} |-> Get(d, f)]

\* ------------------------------------------------------------ Source data
\* The list entries Source serves, in order.  The third template and the
\* third content block have no name, the first content block has an empty id.
TemplateCatalog ==
    << [id |-> "e1", name |-> "Welcome"],
       [id |-> "e2", name |-> "Promo"],
       [id |-> "e3", name |-> NoneVal],
       [id |-> "e4", name |-> "Digest"] >>

BlockCatalog ==
    << [id |-> "", name |-> "Orphan"],
       [id |-> "b2", name |-> "Footer"],
       [id |-> "b3", name |-> NoneVal],
       [id |-> "b4", name |-> "Header"] >>

Slugs == {"e1", "e2", "e3", "e4", "b2", "b3", "b4"}

Hi == Str(<<"H", "i">>)
Padded == Str(<<" ", "p", "\n">>)
Empty == Str(<<>>)
Blank == Str(<<" ", "\t">>)

\* Details responses: one with text, one whose fields are null, empty and
\* whitespace-only, one that lacks keys.
MixedDetails ==
    [subject |-> Hi, preheader |-> Empty, body |-> Padded, content |-> Padded]
BlankDetails ==
    [subject |-> Null, preheader |-> Empty, body |-> Blank, content |-> Blank]
SparseDetails == [subject |-> Blank, content |-> Null]

DetailCatalogs ==
    { [s \in Slugs |-> IF s \in {"e1", "b4"} THEN MixedDetails
                       ELSE IF s \in {"e2", "b2"} THEN BlankDetails
                       ELSE SparseDetails],
      [s \in Slugs |-> IF s \in {"e2", "b2", "e4"} THEN MixedDetails
                       ELSE IF s \in {"e1"} THEN SparseDetails
                       ELSE BlankDetails] }

Prefix(cat, n) == SubSeq(cat, 1, n)

Min(a, b) == IF a < b THEN a ELSE b

\* Source's page of collection `coll` at `off`
Page(coll, off, limit) == SubSeq(coll, off + 1, Min(off + limit, Len(coll)))

\* ----------------------------------------------------------- Target data
NoRes == "<absent>"
Listed(s) == s.templates \o s.blocks

\* ids of the listed entries that have an id and a name (the others are skipped)
ProcessedSlugs(s) ==
    {Listed(s)[i].id : i \in {j \in 1..Len(Listed(s)) :
        ~Missing(Listed(s)[j].id) /\ ~Missing(Listed(s)[j].name)}}

NameOf(s, slug) ==
    Listed(s)[CHOOSE i \in 1..Len(Listed(s)) : Listed(s)[i].id = slug].name

NoContent == << >>

\* file_content = None
NoFile == "None"

\* A status document of a job that is not done: status pending, a status the
\* client does not know, or no status at all.
NotDoneWords == {"pending", "unknown status", "no status"}

VARIABLES
    config,       \* [backupEnabled, backupPath]
    src,          \* Source collections: [templates, blocks]
    srcDetails,   \* Source details response per item id
    tx,           \* Target: resource name per slug, or NoRes
    txContent,    \* Target: content last uploaded per slug
    job,          \* Target's export job: [left: status GETs it still answers as
                  \* not done (-1: it never completes), says: how it words that]
    cancel,       \* cancel_event.is_set()
    runsAllowed,  \* calls of sync_logic_main the caller makes
    run,          \* calls made so far
    pc,           \* position of the run
    phase,        \* 1: email templates, 2: content blocks
    offset,       \* fetch_braze_list: offset
    allItems,     \* fetch_braze_list: all_items
    items,        \* the list the for loop iterates
    idx,          \* position of the for loop in items
    details,      \* details of the item in progress
    elapsed,      \* perform_tmx_backup: time.time() - (timeout - 300)
    pollInterval, \* perform_tmx_backup: poll_interval
    fileContent,  \* perform_tmx_backup: file_content (whose body it is, or None)
    reqs,         \* every HTTP request issued, with its response
    log,          \* lines handed to log_callback
    sleeps,       \* time.sleep(poll_interval) calls of the polling loop
    files,        \* backup files written: the body each one holds
    bkResult,     \* what perform_tmx_backup returned to this run
    cbRaised,     \* progress_callback raised in this run
    cancelMark,   \* where the run was when the token was set
    parked        \* the call of sync_logic_main on the caller's other thread,
                  \* while this one takes its steps

\* What no step of a call changes: the configuration, Source's data, the
\* caller's plan and the locals of the call on the other thread.
envVars == <<config, src, srcDetails, runsAllowed, parked>>
txVars == <<tx, txContent>>
listVars == <<offset, allItems>>
loopVars == <<phase, items, idx, details>>
bkVars == <<job, elapsed, pollInterval, fileContent, sleeps, files, bkResult>>
vars == <<config, src, srcDetails, tx, txContent, job, cancel, runsAllowed, run,
          pc, phase, offset, allItems, items, idx, details, elapsed,
          pollInterval, fileContent, reqs, log, sleeps, files, bkResult, cbRaised,
          cancelMark, parked>>

NoMark == [set |-> FALSE, at |-> 0, pc |-> "", phase |-> 0, idx |-> 0]

\* The locals of call number n of sync_logic_main as it begins, its token not
\* set, and the locals of a call that was never made.
FreshFrame(n) ==
    [run |-> n, cancel |-> FALSE, cancelMark |-> NoMark, pc |-> "start_chk",
     phase |-> 0, offset |-> 0, allItems |-> <<>>, items |-> <<>>, idx |-> 0,
     details |-> <<>>, elapsed |-> 0, pollInterval |-> 0,
     fileContent |-> NoFile,
     log |-> <<"--- Starting Braze to Transifex Sync ---">>,
     bkResult |-> "not called", cbRaised |-> FALSE]
NoFrame == [FreshFrame(0) EXCEPT !.pc = "no run", !.log = <<>>]

\* ------------------------------------------------------------------ Init
\* Source with the first n templates and the first m content blocks.
Source(n, m) ==
    [templates |-> Prefix(TemplateCatalog, n), blocks |-> Prefix(BlockCatalog, m)]

\* The Sources of a run without backup, of a run with backup (whose requests
\* come before the first Source request), and of two runs in a row.
PlainSources == {Source(n, m) : n \in 0..MaxItems, m \in 0..MaxItems}
BackupSources == {Source(0, 0), Source(1, 2)}
TwiceSources == {Source(1, 0), Source(1, 1)}

\* The state before the caller's first call of sync_logic_main.
InitWith(nRuns, plain, backedUp) ==
    /\ config \in [backupEnabled : BOOLEAN, backupPath : BOOLEAN]
    /\ ~config.backupEnabled => config.backupPath
    /\ src \in (IF config.backupEnabled THEN backedUp ELSE plain)
    /\ srcDetails \in DetailCatalogs
    /\ \E f \in [ProcessedSlugs(src) -> {"absent", "renamed", "current"}] :
           tx = [s \in Slugs |->
                    IF s \notin ProcessedSlugs(src) \/ f[s] = "absent" THEN NoRes
                    ELSE IF f[s] = "renamed" THEN "Old"
                    ELSE NameOf(src, s)]
    /\ txContent = [s \in Slugs |-> NoContent]
    /\ job \in [left : -1..MaxPending, says : NotDoneWords]
    /\ job.left = 0 => job.says = "pending"
    /\ (~config.backupEnabled \/ ~config.backupPath) => job.left = 0
    /\ cancel = FALSE
    /\ runsAllowed = nRuns
    /\ run = 0
    /\ pc = "idle"
    /\ phase = 0
    /\ offset = 0
    /\ allItems = <<>>
    /\ items = <<>>
    /\ idx = 0
    /\ details = <<>>
    /\ elapsed = 0
    /\ pollInterval = 0
    /\ fileContent = NoFile
    /\ reqs = <<>>
    /\ log = <<>>
    /\ sleeps = <<>>
    /\ files = <<>>
    /\ bkResult = "not called"
    /\ cbRaised = FALSE
    /\ cancelMark = NoMark
    /\ parked = NoFrame

Init == InitWith(1, PlainSources, BackupSources)

\* ---------------------------------------------------------------- helpers
\* Mutant: the PATCH addresses the resource by the new name.
Req_NameAsSlug(kind, slug, name, content, off, resp) ==
    [run |-> run, kind |-> kind, phase |-> phase, idx |-> idx,
     slug |-> IF kind = "res_patch" THEN name ELSE slug,
     name |-> name, content |-> content, offset |-> off, resp |-> resp]

\* One HTTP request and the response it got.
Req(kind, slug, name, content, off, resp) ==
    [run |-> run, kind |-> kind, phase |-> phase, idx |-> idx, slug |-> slug,
     name |-> name, content |-> content, offset |-> off, resp |-> resp]

Issue(r) == reqs' = Append(reqs, r)

\* The answers with an error status, on which raise_for_status() raises:
\* 500 with a JSON error document, 503 with an HTML page, 429 with a
\* Retry-After header, 409 for a resource that exists already.
ErrorStatuses == {"500", "503", "429", "409"}

\* e.response.json() of an error answer: every body but the HTML page parses.
BodyParses(status) == status # "503"

\* The exceptions the top level tells apart: an HTTPError carries its
\* response, a KeyError the key that was missing.
HTTPErrorOf(status) == "HTTPError " \o status
HTTPErrors == {HTTPErrorOf(s) : s \in ErrorStatuses}
StatusOf(exc) == CHOOSE s \in ErrorStatuses : exc = HTTPErrorOf(s)
KeyErrorOf(key) == "KeyError '" \o key \o "'"
MissingKeyLine(key) ==
    "fatal:Received an unexpected API response. Missing expected key: '" \o key \o "'"
ShapeKeys == {"data", "name"}

\* The except clauses of sync_logic_main: the line each logs first.
HandlerLine(exc) ==
    CASE exc = "CancellationError" -> "cancelled:Sync process was cancelled by the user."
      [] exc = "BackupCancellationError" -> "cancelled:Backup process cancelled by user."
      [] exc \in HTTPErrors -> "fatal:An API error occurred."
      [] exc = "RequestException" -> "fatal:A network error occurred"
      [] exc \in {KeyErrorOf(k) : k \in ShapeKeys} ->
             MissingKeyLine(CHOOSE k \in ShapeKeys : exc = KeyErrorOf(k))
      [] OTHER -> "fatal:An unexpected error occurred"

StatusCodeLine(status) == "error:Response Status Code: " \o status

\* What the HTTPError clause logs after its first line: the request URL, the
\* status code, and the parsed error details or, for a body that does not
\* parse, the response text.
HandlerReport(exc) ==
    IF exc \in HTTPErrors
    THEN <<"error:Request URL", StatusCodeLine(StatusOf(exc)),
           IF BodyParses(StatusOf(exc)) THEN "error:Response Error Details"
           ELSE "error:Response Content">>
    ELSE <<>>

\* Mutant: the handler logs and the failed step is tried again.
Raise_Retry(exc) ==
    /\ pc' = pc
    /\ log' = log \o <<HandlerLine(exc)>> \o HandlerReport(exc)

\* Mutant: every handler logs a fatal line of its own first.
Raise_AlsoFatal(exc) ==
    /\ pc' = "done"
    /\ log' = log \o <<"fatal:An unexpected error occurred", HandlerLine(exc)>>
                  \o HandlerReport(exc)

Raise(exc) ==
    /\ pc' = "done"
    /\ log' = log \o <<HandlerLine(exc)>> \o HandlerReport(exc)

\* What a failed request raises: raise_for_status() on an error status, or
\* the transport's own exception.
FailureOf(resp) ==
    IF resp = "neterr" THEN "RequestException" ELSE HTTPErrorOf(resp)

\* The request got no answer, or one with an error status.
Failure(resp) == resp = "neterr" \/ resp \in ErrorStatuses

\* How a request to Source and a request to Target can fail.
SourceFailures == {"500", "503", "429", "neterr"}
TargetFailures == {"500", "503", "neterr"}

\* Mutant: check_for_cancel never looks at the token.
CheckOutcomes_NoToken == {"callback raises", "ok"}

\* Mutant: check_for_cancel only reports the progress, which succeeds.
CheckOutcomes_ProgressOnly == {"ok"}

\* Mutant: the token is read at the head of the for loops only, not by the
\* helpers that make the requests.
CheckOutcomes_LoopHeadOnly ==
    {"callback raises"} \cup
        (IF cancel /\ pc = "item_chk" THEN {"cancelled"} ELSE {"ok"})

\* check_for_cancel: progress_callback(message), then the token.
CheckOutcomes == {"callback raises"} \cup (IF cancel THEN {"cancelled"} ELSE {"ok"})

CheckFails(o) ==
    /\ o # "ok"
    /\ cbRaised' = (cbRaised \/ o = "callback raises")
    /\ Raise(IF o = "cancelled" THEN "CancellationError" ELSE "Exception")

\* The for loop takes the next entry of the list, or ends: after the email
\* templates the content blocks follow, after the content blocks the run
\* reports completion.
LoopPc(its, i, ph) ==
    IF i < Len(its) THEN "item_chk" ELSE IF ph = 1 THEN "phase_chk" ELSE "done"
LoopIdx(its, i) == IF i < Len(its) THEN i + 1 ELSE 0
LoopPhase(its, i, ph) == IF i >= Len(its) /\ ph = 1 THEN 2 ELSE ph
\* Mutant: completion is reported at the end of either collection.
LoopLog_EitherPhase(its, i, ph) ==
    IF i >= Len(its) THEN <<"Sync Complete">> ELSE <<>>

LoopLog(its, i, ph) ==
    IF i >= Len(its) /\ ph = 2 THEN <<"Sync Complete">> ELSE <<>>

NextItem(lines) ==
    /\ pc' = LoopPc(items, idx, phase)
    /\ idx' = LoopIdx(items, idx)
    /\ phase' = LoopPhase(items, idx, phase)
    /\ items' = IF idx < Len(items) THEN items ELSE <<>>
    /\ details' = <<>>
    /\ log' = log \o lines \o LoopLog(items, idx, phase)

Item == items[idx]
ItemId == Item.id
ItemName == Item.name

\* ------------------------------------------------------------ the caller
\* The caller starts sync_logic_main with a fresh cancel_event, which may
\* already be set.
StartRun ==
    /\ pc \in {"idle", "done"}
    /\ run < runsAllowed
    /\ run' = run + 1
    /\ cancel' \in BOOLEAN
    /\ cancelMark' = IF cancel'
                     THEN [set |-> TRUE, at |-> Len(reqs), pc |-> "before the run",
                           phase |-> 0, idx |-> 0]
                     ELSE NoMark
    /\ pc' = "start_chk"
    /\ log' = Append(log, "--- Starting Braze to Transifex Sync ---")
    /\ cbRaised' = FALSE
    /\ phase' = 0
    /\ offset' = 0
    /\ allItems' = <<>>
    /\ items' = <<>>
    /\ idx' = 0
    /\ details' = <<>>
    /\ bkResult' = "not called"
    /\ UNCHANGED <<envVars, txVars, job, elapsed, pollInterval, fileContent,
                   sleeps, files, reqs>>

\* The external actor sets the cancellation token while the run is going.
Cancel ==
    /\ pc \notin {"idle", "done"}
    /\ ~cancel
    /\ cancel' = TRUE
    /\ cancelMark' = [set |-> TRUE, at |-> Len(reqs), pc |-> pc,
                      phase |-> phase, idx |-> idx]
    /\ UNCHANGED <<envVars, txVars, bkVars, listVars, loopVars, run, pc,
                   reqs, log, cbRaised>>

\* --------------------------------------------------------- sync_logic_main
\* A step that is only a check_for_cancel call.
CheckStep(here, next, lines) ==
    /\ pc = here
    /\ \E o \in CheckOutcomes :
           IF o = "ok"
           THEN pc' = next /\ log' = log \o lines /\ UNCHANGED cbRaised
           ELSE CheckFails(o)
    /\ UNCHANGED <<envVars, txVars, bkVars, listVars, loopVars, cancel, run,
                   reqs, cancelMark>>

\* Mutant: the backup runs whatever the configuration says.
BackupSwitch_AlwaysOn(cfg) == TRUE

\* config.get("BACKUP_ENABLED", False)
BackupSwitch(cfg) == cfg.backupEnabled

\* check_for_cancel("Starting sync process..."), then the backup switch.
StartChk ==
    /\ pc = "start_chk"
    /\ \E o \in CheckOutcomes :
           IF o = "ok"
           THEN /\ pc' = IF BackupSwitch(config) THEN "bk_begin" ELSE "phase_chk"
                /\ phase' = IF BackupSwitch(config) THEN 0 ELSE 1
                /\ log' = IF BackupSwitch(config) THEN log
                          ELSE Append(log, "TMX backup is disabled. Skipping.")
                /\ UNCHANGED cbRaised
           ELSE CheckFails(o) /\ UNCHANGED phase
    /\ UNCHANGED <<envVars, txVars, bkVars, listVars, items, idx, details,
                   cancel, run, reqs, cancelMark>>

\* check_for_cancel("[1] Processing Email Templates...") and its twin for
\* the content blocks, each followed by the call of fetch_braze_list.
PhaseChk ==
    /\ pc = "phase_chk"
    /\ \E o \in CheckOutcomes :
           IF o = "ok"
           THEN /\ pc' = "list_chk"
                /\ log' = Append(log, IF phase = 1
                                      THEN "[1] Processing Email Templates..."
                                      ELSE "[2] Processing Content Blocks...")
                /\ offset' = 0
                /\ allItems' = <<>>
                /\ UNCHANGED cbRaised
           ELSE CheckFails(o) /\ UNCHANGED listVars
    /\ UNCHANGED <<envVars, txVars, bkVars, loopVars, cancel, run, reqs,
                   cancelMark>>

\* fetch_braze_list: the check at the head of the while loop.
ListChk == CheckStep("list_chk", "list_get", <<>>)

Collection == IF phase = 1 THEN src.templates ELSE src.blocks

\* The offset parameter of the list URL: left out (-1) for the first page.
OffsetParam(off) == IF off > 0 THEN off ELSE -1

\* Mutant: only an empty page ends the loop.
LastPage_OnlyEmpty(page, limit) == page = <<>>

\* The two breaks of the while loop: `if not items` and `len(items) < limit`.
LastPage(page, limit) == page = <<>> \/ Len(page) < limit

\* Mutant: a document without the list key yields the items all the same.
PageOf_KeyIgnored(resp, coll, off, limit) == Page(coll, off, limit)

\* items = data.get(list_key, []): the page Source serves, or the default
\* for a document that has no such key.
PageOf(resp, coll, off, limit) ==
    IF resp = "200" THEN Page(coll, off, limit) ELSE <<>>

\* fetch_braze_list: one page request and what follows it.
ListGet ==
    /\ pc = "list_get"
    /\ \E resp \in {"200", "200 without the list key"} \cup SourceFailures :
        /\ Issue(Req("list", "", "", NoContent, OffsetParam(offset), resp))
        /\ IF Failure(resp)
           THEN /\ Raise(FailureOf(resp))
                /\ UNCHANGED <<listVars, loopVars>>
           ELSE LET page == PageOf(resp, Collection, offset, PageLimit)
                    more == ~LastPage(page, PageLimit)
                    all == allItems \o page
                IN  /\ allItems' = all
                    /\ offset' = offset + Len(page)
                    /\ IF more
                       THEN /\ pc' = "list_chk"
                            /\ log' = log
                            /\ UNCHANGED loopVars
                       ELSE /\ pc' = LoopPc(all, 0, phase)
                            /\ idx' = LoopIdx(all, 0)
                            /\ phase' = LoopPhase(all, 0, phase)
                            /\ items' = all
                            /\ details' = <<>>
                            /\ log' = log \o LoopLog(all, 0, phase)
    /\ UNCHANGED <<envVars, txVars, bkVars, cancel, run, cbRaised, cancelMark>>

\* Mutant: only an entry without a name is passed over.
Skipped_OnlyNoName(id, name) == Missing(name)

\* `if not template_id or not template_name: continue`
Skipped(id, name) == Missing(id) \/ Missing(name)

\* The head of the for loop: check_for_cancel, then the id and name test.
ItemChk ==
    /\ pc = "item_chk"
    /\ \E o \in CheckOutcomes :
           IF o # "ok"
           THEN CheckFails(o) /\ UNCHANGED loopVars
           ELSE IF Skipped(ItemId, ItemName)
                THEN NextItem(<<>>) /\ UNCHANGED cbRaised
                ELSE /\ pc' = "det_chk"
                     /\ log' = Append(log, "Processing item")
                     /\ UNCHANGED <<loopVars, cbRaised>>
    /\ UNCHANGED <<envVars, txVars, bkVars, listVars, cancel, run, reqs,
                   cancelMark>>

\* fetch_braze_item_details
DetChk == CheckStep("det_chk", "det_get", <<>>)

DetGet ==
    /\ pc = "det_get"
    /\ \E resp \in {"200"} \cup SourceFailures :
        /\ Issue(Req("detail", ItemId, "", NoContent, -1, resp))
        /\ IF resp = "200"
           THEN /\ details' = srcDetails[ItemId]
                /\ pc' = "res_chk"
                /\ log' = log
           ELSE Raise(FailureOf(resp)) /\ UNCHANGED details
    /\ UNCHANGED <<envVars, txVars, bkVars, listVars, phase, items, idx,
                   cancel, run, cbRaised, cancelMark>>

\* create_or_update_transifex_resource
ResChk == CheckStep("res_chk", "res_get", <<>>)

\* What Target answers to the resource GET: 404 or 200 by its state, a 200
\* whose document lacks the name or has no data at all, a status that is
\* neither 200 nor 404 (204: no error status; 500, 503: an error status),
\* or no answer.
ResGetAnswers(slug) ==
    (IF tx[slug] = NoRes THEN {"404"}
     ELSE {"200", "200 without name", "200 without data"})
        \cup {"204"} \cup TargetFailures

\* Mutant: the lookup is reported as a missing name whatever was missing.
MissingKey_AlwaysName(resp) == "name"

\* The key response.json()["data"]["attributes"]["name"] misses first.
MissingKey(resp) == IF resp = "200 without data" THEN "data" ELSE "name"

\* Mutant: the 404 is not told apart from the other error statuses.
ResGetBranch_NoCreate(resp, existing, name) ==
    CASE resp = "neterr" -> "raise RequestException"
      [] resp \in {"200 without name", "200 without data"} -> "raise KeyError"
      [] resp = "200" -> IF existing # name THEN "patch" ELSE "keep"
      [] resp \in {"404", "500", "503"} -> "raise HTTPError"
      [] OTHER -> "return"

\* Mutant: the name comparison is left out, an existing resource is kept.
ResGetBranch_NoCompare(resp, existing, name) ==
    CASE resp = "neterr" -> "raise RequestException"
      [] resp = "404" -> "create"
      [] resp \in {"200 without name", "200 without data"} -> "raise KeyError"
      [] resp = "200" -> "keep"
      [] resp \in {"500", "503"} -> "raise HTTPError"
      [] OTHER -> "return"

\* Mutant: an existing resource is always patched.
ResGetBranch_AlwaysPatch(resp, existing, name) ==
    CASE resp = "neterr" -> "raise RequestException"
      [] resp = "404" -> "create"
      [] resp \in {"200 without name", "200 without data"} -> "raise KeyError"
      [] resp = "200" -> "patch"
      [] resp \in {"500", "503"} -> "raise HTTPError"
      [] OTHER -> "return"

\* Mutant: a resource GET that failed is passed over.
ResGetBranch_ErrorsIgnored(resp, existing, name) ==
    CASE resp = "404" -> "create"
      [] resp \in {"200 without name", "200 without data"} -> "raise KeyError"
      [] resp = "200" -> IF existing # name THEN "patch" ELSE "keep"
      [] OTHER -> "return"

\* Mutant: whatever is not an answer with the resource leads to the create
\* POST, an error status other than 404 included.
ResGetBranch_CreateUnlessFound(resp, existing, name) ==
    CASE resp = "neterr" -> "raise RequestException"
      [] resp \in {"200 without name", "200 without data"} -> "raise KeyError"
      [] resp = "200" -> IF existing # name THEN "patch" ELSE "keep"
      [] OTHER -> "create"

\* The branch create_or_update_transifex_resource takes on the GET's answer.
ResGetBranch(resp, existing, name) ==
    CASE resp = "neterr" -> "raise RequestException"
      [] resp = "404" -> "create"
      [] resp \in {"200 without name", "200 without data"} -> "raise KeyError"
      [] resp = "200" -> IF existing # name THEN "patch" ELSE "keep"
      [] resp \in {"500", "503"} -> "raise HTTPError"
      [] OTHER -> "return"

ResGet ==
    /\ pc = "res_get"
    /\ \E resp \in ResGetAnswers(ItemId) :
        LET b == ResGetBranch(resp, tx[ItemId], ItemName) IN
        /\ Issue(Req("res_get", ItemId, IF resp = "200" THEN tx[ItemId] ELSE "",
                     NoContent, -1, resp))
        /\ CASE b = "create" ->
                  /\ pc' = "res_post"
                  /\ log' = Append(log, "Resource not found. Creating...")
             [] b = "patch" ->
                  /\ pc' = "res_patch"
                  /\ log' = Append(log, "Updating name...")
             [] b = "keep" ->
                  /\ pc' = "up_chk"
                  /\ log' = Append(log, "Resource found with correct name.")
             [] b = "return" ->
                  /\ pc' = "up_chk"
                  /\ log' = log
             [] b = "raise KeyError" -> Raise(KeyErrorOf(MissingKey(resp)))
             [] b = "raise HTTPError" -> Raise(FailureOf(resp))
             [] OTHER -> Raise("RequestException")
    /\ UNCHANGED <<envVars, txVars, bkVars, listVars, loopVars, cancel, run,
                   cbRaised, cancelMark>>

\* What Target answers to the create POST: it creates the resource, or
\* refuses a slug that is taken (409).
ResPostAnswers(slug) ==
    (IF tx[slug] = NoRes THEN {"201"} ELSE {"409"}) \cup TargetFailures

\* The create POST: {slug, name} with the KEYVALUEJSON format.
ResPost ==
    /\ pc = "res_post"
    /\ \E resp \in ResPostAnswers(ItemId) :
        /\ Issue(Req("res_post", ItemId, ItemName, NoContent, -1, resp))
        /\ IF resp = "201"
           THEN /\ tx' = [tx EXCEPT ![ItemId] = ItemName]
                /\ pc' = "up_chk"
                /\ log' = Append(log, "Resource created.")
           ELSE Raise(FailureOf(resp)) /\ UNCHANGED tx
    /\ UNCHANGED <<envVars, txContent, bkVars, listVars, loopVars, cancel, run,
                   cbRaised, cancelMark>>

\* The PATCH of the name.
ResPatch ==
    /\ pc = "res_patch"
    /\ \E resp \in {"200"} \cup TargetFailures :
        /\ Issue(Req("res_patch", ItemId, ItemName, NoContent, -1, resp))
        /\ IF resp = "200"
           THEN /\ tx' = [tx EXCEPT ![ItemId] = ItemName]
                /\ pc' = "up_chk"
                /\ log' = Append(log, "Name updated successfully.")
           ELSE Raise(FailureOf(resp)) /\ UNCHANGED tx
    /\ UNCHANGED <<envVars, txContent, bkVars, listVars, loopVars, cancel, run,
                   cbRaised, cancelMark>>

\* upload_source_content_to_transifex: check_for_cancel, then the empty test.
UpChk ==
    /\ pc = "up_chk"
    /\ \E o \in CheckOutcomes :
           IF o # "ok"
           THEN CheckFails(o) /\ UNCHANGED loopVars
           ELSE IF ContentOf(details, phase) = NoContent
                THEN /\ NextItem(<<"No content to upload. Skipping.">>)
                     /\ UNCHANGED cbRaised
                ELSE /\ pc' = "up_post"
                     /\ log' = log
                     /\ UNCHANGED <<loopVars, cbRaised>>
    /\ UNCHANGED <<envVars, txVars, bkVars, listVars, cancel, run, reqs,
                   cancelMark>>

\* The upload POST; the 202 is logged, any other success is silent.
UpPost ==
    /\ pc = "up_post"
    /\ \E resp \in {"202", "200"} \cup TargetFailures :
        /\ Issue(Req("upload", ItemId, "", ContentOf(details, phase), -1, resp))
        /\ IF resp \in {"202", "200"}
           THEN /\ txContent' = [txContent EXCEPT ![ItemId] = ContentOf(details, phase)]
                /\ NextItem(IF resp = "202" THEN <<"Upload started.">> ELSE <<>>)
           ELSE Raise(FailureOf(resp)) /\ UNCHANGED <<txContent, loopVars>>
    /\ UNCHANGED <<envVars, tx, bkVars, listVars, cancel, run, cbRaised,
                   cancelMark>>


\* ------------------------------------------------------ perform_tmx_backup
\* Mutant: sync_logic_main ignores what perform_tmx_backup returned.
BackupReturns_Ignored(ok, lines) ==
    /\ pc' = "phase_chk"
    /\ phase' = 1
    /\ log' = log \o lines
    /\ bkResult' = IF ok THEN "True" ELSE "False"
    /\ elapsed' = 0
    /\ pollInterval' = 0
    /\ fileContent' = NoFile

\* Mutant: the backup is best effort: the sync follows a failed backup too.
BackupReturns_BestEffort(ok, lines) ==
    /\ pc' = "phase_chk"
    /\ phase' = 1
    /\ log' = log \o lines \o
              <<"--- TMX Backup complete. Proceeding with sync. ---">>
    /\ bkResult' = IF ok THEN "True" ELSE "False"
    /\ elapsed' = 0
    /\ pollInterval' = 0
    /\ fileContent' = NoFile

\* perform_tmx_backup returns `ok` to sync_logic_main, which halts the run
\* on False and goes on to the email templates on True.
BackupReturns(ok, lines) ==
    /\ pc' = IF ok THEN "phase_chk" ELSE "done"
    /\ phase' = IF ok THEN 1 ELSE phase
    /\ log' = log \o lines \o
              (IF ok THEN <<"--- TMX Backup complete. Proceeding with sync. ---">>
               ELSE <<"--- Sync halted due to backup failure. ---">>)
    /\ bkResult' = IF ok THEN "True" ELSE "False"
    /\ elapsed' = 0
    /\ pollInterval' = 0
    /\ fileContent' = NoFile

\* Mutant: the export job is requested whether or not a path is configured.
BeginBranch_AlwaysCreates(cfg) == "create"

\* `if not backup_path_str: ... return True`
BeginBranch(cfg) == IF ~cfg.backupPath THEN "skip" ELSE "create"

\* The backup path test, then backup_path.mkdir(parents=True, exist_ok=True),
\* which is outside the try blocks of perform_tmx_backup: when the directory
\* cannot be made, the OSError reaches the top level.
BkBegin ==
    /\ pc = "bk_begin"
    /\ IF BeginBranch(config) = "skip"
       THEN BackupReturns(TRUE, <<"--- Starting TMX Backup ---",
                                  "error:Backup path is not defined. Skipping backup.">>)
       ELSE \E made \in BOOLEAN :
            IF made
            THEN /\ pc' = "bk_create"
                 /\ log' = Append(log, "--- Starting TMX Backup ---")
                 /\ UNCHANGED <<phase, elapsed, pollInterval, fileContent, bkResult>>
            ELSE /\ pc' = "done"
                 /\ log' = log \o <<"--- Starting TMX Backup ---",
                                     HandlerLine("OSError")>>
                 /\ UNCHANGED <<phase, elapsed, pollInterval, fileContent, bkResult>>
    /\ UNCHANGED <<envVars, txVars, listVars, items, idx, details, job, sleeps,
                   files, cancel, run, reqs, cbRaised, cancelMark>>

\* Mutant: the creation's answer is not looked at.
CreateBranch_AlwaysPolls(resp) == "poll"

\* The first try block: raise_for_status(), then the job id of the document.
CreateBranch(resp) ==
    CASE resp = "200" -> "poll"
      [] resp = "200 without id" -> "raise KeyError"
      [] OTHER -> "raise RequestException"

\* The POST that creates the export job, and the start of the polling.
BkCreate ==
    /\ pc = "bk_create"
    /\ \E resp \in {"200", "200 without id", "500", "neterr"} :
        /\ Issue(Req("bk_create", "", "", NoContent, -1, resp))
        /\ CASE CreateBranch(resp) = "poll" ->
                  /\ pc' = "bk_loop"
                  /\ log' = log \o <<"Backup job created successfully.",
                                     "Waiting for Transifex to process the file...">>
                  /\ elapsed' = 0
                  /\ pollInterval' = InitialPollInterval
                  /\ fileContent' = NoFile
                  /\ UNCHANGED <<phase, bkResult>>
             [] CreateBranch(resp) = "raise KeyError" ->
                  BackupReturns(FALSE,
                      <<"fatal:An unexpected error occurred starting TMX backup job">>)
             [] OTHER ->
                  BackupReturns(FALSE, <<"fatal:A network error occurred">>)
    /\ UNCHANGED <<envVars, txVars, listVars, items, idx, details, job, sleeps,
                   files, cancel, run, cbRaised, cancelMark>>

\* Mutant: the loop runs a minute past the deadline.
DeadlinePassed_Late(e) == ~(e < PollDeadline + 60)

\* `while time.time() < timeout` is over, e seconds after timeout was set.
DeadlinePassed(e) == ~(e < PollDeadline)

\* Mutant: the polling loop does not look at the token.
LoopBranch_NoToken(e, c) == IF DeadlinePassed(e) THEN "timeout" ELSE "poll"

\* The while condition, then `if cancel_event.is_set(): raise`.
LoopBranch(e, c) ==
    IF DeadlinePassed(e) THEN "timeout"
    ELSE IF c THEN "raise CancellationError"
    ELSE "poll"

\* The head of the polling loop: the deadline, then the token.
BkLoop ==
    /\ pc = "bk_loop"
    /\ IF LoopBranch(elapsed, cancel) = "timeout"
       THEN BackupReturns(FALSE, <<"error:TMX backup job timed out after 5 minutes.">>)
       ELSE IF LoopBranch(elapsed, cancel) = "raise CancellationError"
            THEN /\ Raise("BackupCancellationError")
                 /\ UNCHANGED <<phase, elapsed, pollInterval, fileContent, bkResult>>
            ELSE /\ pc' = "bk_status"
                 /\ log' = log
                 /\ UNCHANGED <<phase, elapsed, pollInterval, fileContent, bkResult>>
    /\ UNCHANGED <<envVars, txVars, listVars, items, idx, details, job, sleeps,
                   files, cancel, run, reqs, cbRaised, cancelMark>>

\* What Target answers to a status GET: while the job is not done a status
\* document that says pending (or a status the client does not know, or
\* none); then completed (with or without the download link), failed, the
\* file itself, a page of another content type or a body that is no JSON.
StatusAnswers ==
    (IF job.left # 0
     THEN {job.says}
     ELSE {"completed", "completed without link", "failed", "file", "html",
           "invalid json"})
        \cup {"500", "neterr"}

\* Mutant: the interval doubles without a cap.
NextPollInterval_NoCap(p) == p * 2

\* poll_interval = min(poll_interval * 2, max_poll_interval)
NextPollInterval(p) == Min(p * 2, MaxPollInterval)

\* Seconds a status GET may take (timeout=30).
ReqDurations == {0, RequestTimeout}

\* Mutant: the loop sleeps and polls again after the file came with the
\* status answer.
StatusBranch_FileSleeps(resp) ==
    CASE resp \in {"500", "neterr"} -> "raise RequestException"
      [] resp = "completed" -> "download"
      [] resp = "completed without link" -> "raise KeyError"
      [] resp = "failed" -> "return False"
      [] resp = "invalid json" -> "raise JSONDecodeError"
      [] resp = "html" -> "unexpected content type"
      [] OTHER -> "sleep"

\* Mutant: the download is tried while the job is not done.
StatusBranch_PendingDownloads(resp) ==
    CASE resp \in {"500", "neterr"} -> "raise RequestException"
      [] resp = "completed" -> "download"
      [] resp = "completed without link" -> "raise KeyError"
      [] resp = "failed" -> "return False"
      [] resp = "invalid json" -> "raise JSONDecodeError"
      [] resp = "file" -> "break"
      [] resp = "html" -> "unexpected content type"
      [] OTHER -> "download"

\* Mutant: a failed job is polled on like a pending one.
StatusBranch_FailedSleeps(resp) ==
    CASE resp \in {"500", "neterr"} -> "raise RequestException"
      [] resp = "completed" -> "download"
      [] resp = "completed without link" -> "raise KeyError"
      [] resp = "invalid json" -> "raise JSONDecodeError"
      [] resp = "file" -> "break"
      [] resp = "html" -> "unexpected content type"
      [] OTHER -> "sleep"

\* Mutant: a page of another content type is polled on like a pending job.
StatusBranch_HtmlSleeps(resp) ==
    CASE resp \in {"500", "neterr"} -> "raise RequestException"
      [] resp = "completed" -> "download"
      [] resp = "completed without link" -> "raise KeyError"
      [] resp = "failed" -> "return False"
      [] resp = "invalid json" -> "raise JSONDecodeError"
      [] resp = "file" -> "break"
      [] OTHER -> "sleep"

\* Mutant: the download is requested although the file came with the answer.
StatusBranch_FileDownloads(resp) ==
    CASE resp \in {"500", "neterr"} -> "raise RequestException"
      [] resp \in {"completed", "file"} -> "download"
      [] resp = "completed without link" -> "raise KeyError"
      [] resp = "failed" -> "return False"
      [] resp = "invalid json" -> "raise JSONDecodeError"
      [] resp = "html" -> "unexpected content type"
      [] OTHER -> "sleep"

\* Mutant: only the status pending is waited on; a status document with
\* another status, or with none, ends the backup as failed.
StatusBranch_OnlyPendingSleeps(resp) ==
    CASE resp \in {"500", "neterr"} -> "raise RequestException"
      [] resp = "completed" -> "download"
      [] resp = "completed without link" -> "raise KeyError"
      [] resp = "invalid json" -> "raise JSONDecodeError"
      [] resp = "file" -> "break"
      [] resp = "html" -> "unexpected content type"
      [] resp = "pending" -> "sleep"
      [] OTHER -> "return False"

\* The branch the polling loop takes on the answer.
StatusBranch(resp) ==
    CASE resp \in {"500", "neterr"} -> "raise RequestException"
      [] resp = "completed" -> "download"
      [] resp = "completed without link" -> "raise KeyError"
      [] resp = "failed" -> "return False"
      [] resp = "invalid json" -> "raise JSONDecodeError"
      [] resp = "file" -> "break"
      [] resp = "html" -> "unexpected content type"
      [] OTHER -> "sleep"

BkStatus ==
    /\ pc = "bk_status"
    /\ \E resp \in StatusAnswers, d \in ReqDurations :
        LET b == StatusBranch(resp) IN
        /\ Issue(Req("bk_status", "", "", NoContent, -1, resp))
        /\ job' = IF job.left > 0 /\ resp \notin {"500", "neterr"}
                  THEN [job EXCEPT !.left = job.left - 1]
                  ELSE job
        /\ CASE b = "sleep" ->
                  /\ pc' = "bk_loop"
                  /\ log' = log
                  /\ sleeps' = Append(sleeps, pollInterval)
                  /\ elapsed' = elapsed + d + pollInterval
                  /\ pollInterval' = NextPollInterval(pollInterval)
                  /\ UNCHANGED <<phase, fileContent, bkResult>>
             [] b = "download" ->
                  /\ pc' = "bk_download"
                  /\ log' = Append(log, "File ready for download.")
                  /\ elapsed' = elapsed + d
                  /\ UNCHANGED <<phase, pollInterval, fileContent, sleeps, bkResult>>
             [] b = "break" ->
                  /\ pc' = "bk_write"
                  /\ log' = Append(log, "Received TMX file content directly.")
                  /\ fileContent' = "status body"
                  /\ elapsed' = elapsed + d
                  /\ UNCHANGED <<phase, pollInterval, sleeps, bkResult>>
             [] b = "return False" ->
                  /\ BackupReturns(FALSE, <<"error:Transifex reported the backup job failed.">>)
                  /\ UNCHANGED sleeps
             [] b = "raise JSONDecodeError" ->
                  /\ BackupReturns(FALSE, <<"error:Received invalid JSON while checking TMX backup status.">>)
                  /\ UNCHANGED sleeps
             [] b = "unexpected content type" ->
                  /\ BackupReturns(FALSE, <<"error:Unexpected content type received during TMX backup polling">>)
                  /\ UNCHANGED sleeps
             [] b = "raise KeyError" ->
                  /\ BackupReturns(FALSE, <<"error:An unexpected error occurred during TMX backup polling">>)
                  /\ UNCHANGED sleeps
             [] OTHER ->
                  /\ BackupReturns(FALSE, <<"fatal:A network error occurred while checking backup status">>)
                  /\ UNCHANGED sleeps
    /\ UNCHANGED <<envVars, txVars, listVars, items, idx, details, files,
                   cancel, run, cbRaised, cancelMark>>

\* Mutant: the body of a failed download is taken for the file.
DownloadBranch_ErrorsIgnored(resp) == "content"

\* tmx_response.raise_for_status(), then file_content = tmx_response.content
DownloadBranch(resp) == IF resp = "200" THEN "content" ELSE "raise"

\* requests.get(download_url, timeout=60), then the break.
BkDownload ==
    /\ pc = "bk_download"
    /\ \E resp \in {"200", "500", "neterr"} :
        /\ Issue(Req("bk_download", "", "", NoContent, -1, resp))
        /\ IF DownloadBranch(resp) = "content"
           THEN /\ pc' = "bk_write"
                /\ log' = log
                /\ fileContent' = "download body"
                /\ UNCHANGED <<phase, elapsed, pollInterval, bkResult>>
           ELSE BackupReturns(FALSE,
                    <<"fatal:A network error occurred while checking backup status">>)
    /\ UNCHANGED <<envVars, txVars, listVars, items, idx, details, job, sleeps,
                   files, cancel, run, cbRaised, cancelMark>>

\* After the loop: the file_content test and the write of the backup file.
BkWrite ==
    /\ pc = "bk_write"
    /\ \E written \in BOOLEAN :
        IF fileContent = NoFile
        THEN /\ BackupReturns(FALSE, <<"error:TMX backup job timed out after 5 minutes.">>)
             /\ UNCHANGED files
        ELSE IF written
             THEN /\ files' = Append(files, fileContent)
                  /\ BackupReturns(TRUE, <<"SUCCESS: Backup saved">>)
             ELSE /\ BackupReturns(FALSE,
                      <<"error:An unexpected error occurred during TMX backup polling">>)
                  /\ UNCHANGED files
    /\ UNCHANGED <<envVars, txVars, listVars, items, idx, details, job, sleeps,
                   cancel, run, reqs, cbRaised, cancelMark>>

\* ------------------------------------------------------------------ Next
Next ==
    \/ StartRun
    \/ Cancel
    \/ StartChk
    \/ BkBegin
    \/ BkCreate
    \/ BkLoop
    \/ BkStatus
    \/ BkDownload
    \/ BkWrite
    \/ PhaseChk
    \/ ListChk
    \/ ListGet
    \/ ItemChk
    \/ DetChk
    \/ DetGet
    \/ ResChk
    \/ ResGet
    \/ ResPost
    \/ ResPatch
    \/ UpChk
    \/ UpPost

Spec == Init /\ [][Next]_vars

\* The run is a thread that keeps going: a step that can be taken is taken.
SpecFair == Spec /\ WF_vars(Next)

\* A run over an email template collection of several pages.  Its entries
\* have an id and no name, so the for loop skips each of them; the content
\* blocks that follow are the catalog's.
Filler(i) == [id |-> ToString(i), name |-> NoneVal]

PagedSource(n, m) ==
    [templates |-> [i \in 1..n |-> Filler(i)], blocks |-> Prefix(BlockCatalog, m)]

\* Collection sizes around each multiple of the page size.
PagedSizes ==
    {k * PageLimit + r : k \in 0..MaxPages, r \in {0, 1, PageLimit \div 2, PageLimit - 1}}

PagedSources == {PagedSource(n, m) : n \in PagedSizes, m \in {0, MaxItems}}

InitPages ==
    InitWith(1, PagedSources, {PagedSource(PageLimit + PageLimit \div 2, 0)})
SpecPages == InitPages /\ [][Next]_vars

\* Two calls of sync_logic_main, one after the other, on the same Source and
\* the same Target.
InitTwice == InitWith(MaxRuns, TwiceSources, TwiceSources) /\ job.left = 0
SpecTwice == InitTwice /\ [][Next]_vars

\* Two calls of sync_logic_main at the same time, each on a thread of its
\* own, on the same Source and the same Target, without the backup.  The
\* variables of a call are those of the thread that takes the step; those
\* of the other thread wait in `parked`.
PairSources == {Source(1, 0)}

\* Where a call is about to send a request to Target.  The steps in between
\* read Source, which does not change, and touch the locals of the call, so
\* the order in which two threads take them makes no difference to either.
PairRequestPcs == {"res_get", "res_post", "res_patch", "up_post"}

Frame ==
    [run |-> run, cancel |-> cancel, cancelMark |-> cancelMark, pc |-> pc,
     phase |-> phase, offset |-> offset, allItems |-> allItems,
     items |-> items, idx |-> idx, details |-> details, elapsed |-> elapsed,
     pollInterval |-> pollInterval, fileContent |-> fileContent, log |-> log,
     bkResult |-> bkResult, cbRaised |-> cbRaised]

Load(f) ==
    /\ run' = f.run
    /\ cancel' = f.cancel
    /\ cancelMark' = f.cancelMark
    /\ pc' = f.pc
    /\ phase' = f.phase
    /\ offset' = f.offset
    /\ allItems' = f.allItems
    /\ items' = f.items
    /\ idx' = f.idx
    /\ details' = f.details
    /\ elapsed' = f.elapsed
    /\ pollInterval' = f.pollInterval
    /\ fileContent' = f.fileContent
    /\ log' = f.log
    /\ bkResult' = f.bkResult
    /\ cbRaised' = f.cbRaised

\* The caller starts two threads, each of which calls sync_logic_main.
StartPair ==
    /\ pc = "idle"
    /\ run = 0
    /\ runsAllowed >= 2
    /\ parked.pc = "no run"
    /\ Load(FreshFrame(1))
    /\ parked' = FreshFrame(2)
    /\ UNCHANGED <<config, src, srcDetails, runsAllowed, txVars, job, sleeps,
                   files, reqs>>

\* The scheduler lets the other thread take the next steps: before a request
\* of this one, or when this one has returned.
Switch ==
    /\ pc \in PairRequestPcs \cup {"done"}
    /\ parked.pc \notin {"no run", "done"}
    /\ Load(parked)
    /\ parked' = Frame
    /\ UNCHANGED <<config, src, srcDetails, runsAllowed, txVars, job, sleeps,
                   files, reqs>>

NextPair ==
    \/ StartPair
    \/ Switch
    \/ StartChk
    \/ PhaseChk
    \/ ListChk
    \/ ListGet
    \/ ItemChk
    \/ DetChk
    \/ DetGet
    \/ ResChk
    \/ ResGet
    \/ ResPost
    \/ ResPatch
    \/ UpChk
    \/ UpPost

InitPair ==
    InitWith(MaxRuns, PairSources, PairSources) /\ ~config.backupEnabled
SpecPair == InitPair /\ [][NextPair]_vars


\* ============================================================== claims
ReqIdx == 1..Len(reqs)
LastLine == IF log = <<>> THEN "" ELSE log[Len(log)]
Lines(l) == {i \in 1..Len(log) : log[i] = l}

SourceKinds == {"list", "detail"}
ResourceKinds == {"res_get", "res_post", "res_patch"}
ItemKinds == {"detail", "res_get", "res_post", "res_patch", "upload"}
SyncKinds == SourceKinds \cup ResourceKinds \cup {"upload"}
Failed(r) == Failure(r.resp)

HaltedLine == "--- Sync halted due to backup failure. ---"
CancelLines ==
    {"cancelled:Sync process was cancelled by the user.",
     "cancelled:Backup process cancelled by user."}
\* The line the report of a failed request ends with.
FatalLines ==
    {"fatal:A network error occurred", "error:Response Error Details",
     "error:Response Content"}

\* The list entry a request was made for.
EntryOf(r) == (IF r.phase = 1 THEN src.templates ELSE src.blocks)[r.idx]
SameItem(r, q) == r.run = q.run /\ r.phase = q.phase /\ r.idx = q.idx

\* C1: with backup enabled, when perform_tmx_backup returns False the run
\* logs that the sync is halted and ends, with no Source request and no
\* Target resource or upload request issued.
C1_BackupFailureHalts ==
    bkResult = "False" =>
        /\ config.backupEnabled
        /\ pc = "done"
        /\ LastLine = HaltedLine
        /\ \A i \in ReqIdx : reqs[i].kind \notin SyncKinds

C1_Witness ==
    /\ bkResult = "False"
    /\ src.templates # <<>>
    /\ \E i \in ReqIdx : reqs[i].kind = "bk_status" /\ reqs[i].resp = "failed"

\* C2 (as claimed): when the token is already set as sync_logic_main starts,
\* the run issues no HTTP request at all and, once it has ended, has logged
\* exactly one cancellation line.
C2_CancelledBeforeStart ==
    (cancelMark.set /\ cancelMark.pc = "before the run") =>
        /\ reqs = <<>>
        /\ pc = "done" =>
               Cardinality({i \in 1..Len(log) : log[i] \in CancelLines}) = 1

\* C3: once the token is set while the items are enumerated, every request
\* issued from then on belongs to the item that was in progress (none if the
\* run stood at the head of the loop), no list request follows, and every
\* mutation Target has accepted is still in force: nothing is reverted.
InLoop(p) ==
    p \in {"item_chk", "det_chk", "det_get", "res_chk", "res_get", "res_post",
           "res_patch", "up_chk", "up_post"}

C3_CancelStopsLaterItems ==
    (cancelMark.set /\ InLoop(cancelMark.pc)) =>
        /\ \A i \in ReqIdx :
               i > cancelMark.at =>
                   /\ reqs[i].kind \in ItemKinds
                   /\ reqs[i].phase = cancelMark.phase
                   /\ reqs[i].idx = cancelMark.idx
                   /\ cancelMark.pc # "item_chk"
        /\ \A i \in ReqIdx :
               ~Failed(reqs[i]) =>
                   /\ reqs[i].kind \in {"res_post", "res_patch"} =>
                          tx[reqs[i].slug] = reqs[i].name
                   /\ reqs[i].kind = "upload" =>
                          txContent[reqs[i].slug] = reqs[i].content

\* the token was set while the first of several items was in progress, a
\* mutation had been applied before and the run has ended
C3_Witness ==
    /\ cancelMark.set
    /\ cancelMark.pc = "up_chk"
    /\ cancelMark.phase = 1
    /\ cancelMark.idx = 1
    /\ Len(src.templates) > 1
    /\ \E i \in ReqIdx : reqs[i].kind = "res_post" /\ ~Failed(reqs[i])
    /\ pc = "done"

StartLine == "--- Starting Braze to Transifex Sync ---"
FirstRunCompleted ==
    /\ run = 2
    /\ \E j \in Lines("Sync Complete") : \E k \in Lines(StartLine) : j < k
    /\ \A i \in ReqIdx :
           /\ reqs[i].kind = "list" => reqs[i].resp = "200"
           /\ (reqs[i].run = 1 /\ reqs[i].kind = "res_get") =>
                  reqs[i].resp \in {"200", "404"}

C5_SecondRunIdempotent ==
    FirstRunCompleted =>
        \A i \in ReqIdx :
            reqs[i].run = 2 =>
                /\ reqs[i].kind = "res_post" =>
                       ~\E j \in ReqIdx :
                           /\ j < i
                           /\ reqs[j].kind = "res_post"
                           /\ reqs[j].slug = reqs[i].slug
                /\ reqs[i].kind # "res_patch"
                /\ reqs[i].kind = "upload" =>
                       ~\E j \in ReqIdx :
                           /\ reqs[j].run = 1
                           /\ reqs[j].kind = "upload"
                           /\ ~Failed(reqs[j])
                           /\ reqs[j].slug = reqs[i].slug
                           /\ reqs[j].content = reqs[i].content

\* The requests of kind k made for the item of request r.
CountKind(r, k) == Cardinality({i \in ReqIdx : SameItem(reqs[i], r) /\ reqs[i].kind = k})

\* C6: after a resource GET answered 404 the create POST is the request that
\* follows: one POST per item, with slug = the item's id and name = the
\* item's display name, and no PATCH; a failed POST ends the run with the
\* fatal line, so no upload follows it.
C6_NotFoundCreates ==
    \A i \in ReqIdx :
        (reqs[i].kind = "res_get" /\ reqs[i].resp = "404") =>
            /\ CountKind(reqs[i], "res_patch") = 0
            /\ IF i = Len(reqs)
               THEN pc = "res_post"
               ELSE /\ reqs[i + 1].kind = "res_post"
                    /\ SameItem(reqs[i + 1], reqs[i])
                    /\ reqs[i + 1].slug = EntryOf(reqs[i]).id
                    /\ reqs[i + 1].name = EntryOf(reqs[i]).name
                    /\ CountKind(reqs[i], "res_post") = 1
                    /\ Failed(reqs[i + 1]) =>
                           /\ i + 1 = Len(reqs)
                           /\ pc = "done"
                           /\ LastLine \in FatalLines

\* a resource was created and the item's upload followed
C6_Witness ==
    \E i \in ReqIdx :
        /\ reqs[i].kind = "res_get"
        /\ reqs[i].resp = "404"
        /\ i + 2 \in ReqIdx
        /\ reqs[i + 1].kind = "res_post"
        /\ reqs[i + 2].kind = "upload"
        /\ SameItem(reqs[i + 2], reqs[i])

\* C7: after a resource GET answered 200 with a name other than the item's
\* display name, the PATCH is the request that follows: one PATCH per item,
\* carrying the display name, and no create POST.
C7_RenamedPatches ==
    \A i \in ReqIdx :
        (/\ reqs[i].kind = "res_get"
         /\ reqs[i].resp = "200"
         /\ reqs[i].name # EntryOf(reqs[i]).name) =>
            /\ CountKind(reqs[i], "res_post") = 0
            /\ IF i = Len(reqs)
               THEN pc = "res_patch"
               ELSE /\ reqs[i + 1].kind = "res_patch"
                    /\ SameItem(reqs[i + 1], reqs[i])
                    /\ reqs[i + 1].slug = EntryOf(reqs[i]).id
                    /\ reqs[i + 1].name = EntryOf(reqs[i]).name
                    /\ CountKind(reqs[i], "res_patch") = 1

\* a resource named "Old" was renamed and Target holds the new name
C7_Witness ==
    \E i \in ReqIdx :
        /\ reqs[i].kind = "res_get"
        /\ reqs[i].resp = "200"
        /\ reqs[i].name = "Old"
        /\ i + 1 \in ReqIdx
        /\ reqs[i + 1].kind = "res_patch"
        /\ ~Failed(reqs[i + 1])
        /\ tx[reqs[i].slug] = EntryOf(reqs[i]).name

\* C8: after a resource GET answered 200 with the item's display name, no
\* PATCH and no create POST is issued for the item: the only request that
\* may follow for it is its upload, and each such GET logs one "found with
\* correct name" line.
C8_SameNameNoWrite ==
    \A i \in ReqIdx :
        (/\ reqs[i].kind = "res_get"
         /\ reqs[i].resp = "200"
         /\ reqs[i].name = EntryOf(reqs[i]).name) =>
            /\ CountKind(reqs[i], "res_post") = 0
            /\ CountKind(reqs[i], "res_patch") = 0
            /\ \A j \in ReqIdx :
                   (j > i /\ SameItem(reqs[j], reqs[i])) =>
                       (j = i + 1 /\ reqs[j].kind = "upload")
            /\ Cardinality(Lines("Resource found with correct name.")) =
                   Cardinality({j \in ReqIdx :
                       /\ reqs[j].kind = "res_get"
                       /\ reqs[j].resp = "200"
                       /\ reqs[j].name = EntryOf(reqs[j]).name})

\* the name matched and the item's content was uploaded
C8_Witness ==
    \E i \in ReqIdx :
        /\ reqs[i].kind = "res_get"
        /\ reqs[i].resp = "200"
        /\ reqs[i].name = EntryOf(reqs[i]).name
        /\ i + 1 \in ReqIdx
        /\ reqs[i + 1].kind = "upload"
        /\ SameItem(reqs[i + 1], reqs[i])

\* C9 (as claimed): a resource GET answered with a status other than 404
\* and 200 is the last request of the run, which ends with the fatal line:
\* no create POST, no PATCH and no upload follows.
C9_OtherStatusRaises ==
    \A i \in ReqIdx :
        (reqs[i].kind = "res_get" /\ reqs[i].resp \in {"204", "500"}) =>
            /\ i = Len(reqs)
            /\ pc = "done"
            /\ LastLine \in FatalLines

\* Every declared field of the details is null, empty or whitespace-only.
AllBlank(d, ph) ==
    \A f \in Fields(ph) : Get(d, f).null \/ Strip(Get(d, f).s) = <<>>

\* The run has gone past the item of request r.
Past(r) ==
    \/ pc = "done" /\ LastLine = "Sync Complete"
    \/ phase > r.phase
    \/ phase = r.phase /\ idx > r.idx

\* C10: an upload request is only issued for an item with a field that is
\* non-blank after trimming, and carries content; an item whose fields are
\* all blank gets no upload request, yet its resource GET was issued by the
\* time the run has gone past it.
C10_BlankItemsNotUploaded ==
    /\ \A i \in ReqIdx :
           reqs[i].kind = "upload" =>
               /\ ~AllBlank(srcDetails[reqs[i].slug], reqs[i].phase)
               /\ reqs[i].content # NoContent
    /\ \A i \in ReqIdx :
           (/\ reqs[i].kind = "detail"
            /\ ~Failed(reqs[i])
            /\ AllBlank(srcDetails[reqs[i].slug], reqs[i].phase)) =>
               /\ CountKind(reqs[i], "upload") = 0
               /\ Past(reqs[i]) => CountKind(reqs[i], "res_get") = 1

\* a blank item was skipped after its resource had been created, and the run
\* completed
C10_Witness ==
    /\ LastLine = "Sync Complete"
    /\ Lines("No content to upload. Skipping.") # {}
    /\ \E i \in ReqIdx :
           /\ reqs[i].kind = "res_post"
           /\ ~Failed(reqs[i])
           /\ AllBlank(srcDetails[reqs[i].slug], reqs[i].phase)
           /\ CountKind(reqs[i], "upload") = 0

\* The value is a string that is not blank after trimming.
NonBlank(v) == ~v.null /\ Strip(v.s) # <<>>

\* The fields the item type of a request declares.
DeclaredFields(r) ==
    IF r.phase = 1 THEN {"subject", "preheader", "body"} ELSE {"content"}

\* C11: the payload of every upload request is the map of the declared
\* fields of the item type whose value in the item's details is non-null and
\* non-blank after trimming, each with the untrimmed value of the details;
\* blank, missing and undeclared fields are not in it.
C11_PayloadIsFilteredMap ==
    \A i \in ReqIdx :
        reqs[i].kind = "upload" =>
            LET d == srcDetails[reqs[i].slug] IN
            /\ DOMAIN reqs[i].content =
                   {f \in DeclaredFields(reqs[i]) : f \in DOMAIN d /\ NonBlank(d[f])}
            /\ \A f \in DOMAIN reqs[i].content : reqs[i].content[f] = d[f]

\* an email template with a blank preheader and a padded body was uploaded:
\* subject and body are in the payload, the body with its padding
C11_Witness ==
    \E i \in ReqIdx :
        /\ reqs[i].kind = "upload"
        /\ reqs[i].phase = 1
        /\ "content" \in DOMAIN srcDetails[reqs[i].slug]
        /\ DOMAIN reqs[i].content = {"subject", "body"}
        /\ reqs[i].content["body"] = Padded
        /\ Strip(Padded.s) # Padded.s

\* The list requests made for the collection of phase ph, and the position
\* of request i among them.
ListReqs(ph) == {i \in ReqIdx : reqs[i].kind = "list" /\ reqs[i].phase = ph}
Rank(i) == Cardinality({j \in ListReqs(reqs[i].phase) : j <= i})
Coll(ph) == IF ph = 1 THEN src.templates ELSE src.blocks

\* Source served every page asked of the collection.
Served(ph) == \A i \in ListReqs(ph) : reqs[i].resp = "200"

\* fetch_braze_list has returned the list of phase ph.
Returned(ph) ==
    \/ phase = ph /\ InLoop(pc)
    \/ phase > ph
    \/ LastLine = "Sync Complete"

\* C12: the k-th list request of a collection carries no offset for k = 1
\* and offset 100 * (k - 1) for k > 1; for a collection of N items served in
\* pages of 100, fetch_braze_list has issued floor(N / 100) + 1 list requests
\* when it returns, never more, and the list it returns is the N items in
\* order.
C12_Pagination ==
    \A ph \in {1, 2} :
        /\ \A i \in ListReqs(ph) :
               reqs[i].offset = IF Rank(i) = 1 THEN -1 ELSE 100 * (Rank(i) - 1)
        /\ Cardinality(ListReqs(ph)) <= (Len(Coll(ph)) \div 100) + 1
        /\ (Served(ph) /\ Returned(ph)) =>
               Cardinality(ListReqs(ph)) = (Len(Coll(ph)) \div 100) + 1
        /\ (Served(ph) /\ phase = ph /\ InLoop(pc)) => items = Coll(ph)

\* 150 email templates: two list requests, without offset and with offset
\* 100, and the loop iterates the 150 entries
C12_Witness ==
    /\ Len(src.templates) = 150
    /\ phase = 1
    /\ InLoop(pc)
    /\ Len(items) = 150
    /\ Len(reqs) >= 2
    /\ reqs[Len(reqs) - 1].kind = "list"
    /\ reqs[Len(reqs) - 1].offset = -1
    /\ reqs[Len(reqs)].kind = "list"
    /\ reqs[Len(reqs)].offset = 100
    /\ Cardinality(ListReqs(1)) = 2

\* ---- the export job of the run
TimeoutLine == "error:TMX backup job timed out after 5 minutes."
BkCancelLine == "cancelled:Backup process cancelled by user."
BkPcs == {"bk_begin", "bk_create", "bk_loop", "bk_status", "bk_download", "bk_write"}
PollKinds == {"bk_status", "bk_download"}

JobCreated == \E i \in ReqIdx : reqs[i].kind = "bk_create" /\ reqs[i].resp = "200"

\* What shows that the job has reached a terminal state: the file content is
\* in hand; the cancellation was signalled from the polling loop; the loop
\* ran into its deadline; perform_tmx_backup returned False for another
\* reason before any content was in hand.
EvCompleted ==
    \E i \in ReqIdx :
        \/ reqs[i].kind = "bk_download" /\ reqs[i].resp = "200"
        \/ reqs[i].kind = "bk_status" /\ reqs[i].resp = "file"
EvCancelled == Lines(BkCancelLine) # {}
EvTimedOut == Lines(TimeoutLine) # {}
EvFailed == bkResult = "False" /\ ~EvTimedOut /\ ~EvCompleted

Evidence ==
    (IF EvCompleted THEN {"Completed"} ELSE {}) \cup
    (IF EvCancelled THEN {"Cancelled"} ELSE {}) \cup
    (IF EvTimedOut THEN {"TimedOut"} ELSE {}) \cup
    (IF EvFailed THEN {"Failed"} ELSE {})

Terminal == {"Completed", "Failed", "TimedOut", "Cancelled"}

BkState ==
    IF ~JobCreated THEN "NotCreated"
    ELSE IF Evidence = {} THEN "Polling"
    ELSE CHOOSE t \in Evidence : TRUE

\* The requests a step adds to the history.
NewReqs == {reqs'[i] : i \in (Len(reqs) + 1)..Len(reqs')}

\* C13: a created export job is Polling until it reaches a terminal state;
\* when perform_tmx_backup has ended, the job is in exactly one of
\* Completed, Failed, TimedOut and Cancelled; a job in a terminal state stays
\* in it, and no status GET and no download request is issued from then on.
C13_BackupStateMachine ==
    [][ /\ BkState = "NotCreated" => BkState' \in {"NotCreated", "Polling"}
        /\ BkState = "Polling" => BkState' \in {"Polling"} \cup Terminal
        /\ BkState \in Terminal =>
               /\ BkState' = BkState
               /\ \A r \in NewReqs : r.kind \notin PollKinds
        /\ (JobCreated' /\ pc' \notin BkPcs) =>
               /\ BkState' \in Terminal
               /\ Cardinality(Evidence') = 1
      ]_vars

\* a job that was polled while pending, completed and was downloaded; the
\* sync that followed ran to its end
C13_Witness ==
    /\ BkState = "Completed"
    /\ \E i \in ReqIdx : reqs[i].kind = "bk_status" /\ reqs[i].resp = "pending"
    /\ \E i \in ReqIdx : reqs[i].kind = "bk_download"
    /\ LastLine = "Sync Complete"

\* The status responses that said the job was not done, and the downloads.
NotDone == {i \in ReqIdx : reqs[i].kind = "bk_status" /\ reqs[i].resp \in NotDoneWords}
Downloads == {i \in ReqIdx : reqs[i].kind = "bk_download"}

\* C14: the polling loop has slept once for each status response that said
\* the job was not done; the download request is issued once, right after
\* the completed response and so after all those responses and their sleeps;
\* after a completed response the download is what follows.
C14_SleepsThenDownload ==
    /\ Len(sleeps) = Cardinality(NotDone)
    /\ Cardinality(Downloads) <= 1
    /\ \A i \in Downloads :
           /\ i > 1
           /\ reqs[i - 1].kind = "bk_status"
           /\ reqs[i - 1].resp = "completed"
           /\ \A j \in NotDone : j < i
           /\ Len(sleeps) = Cardinality({j \in NotDone : j < i})
    /\ \A i \in ReqIdx :
           (reqs[i].kind = "bk_status" /\ reqs[i].resp = "completed") =>
               IF i = Len(reqs) THEN pc = "bk_download" ELSE i + 1 \in Downloads

\* pending, pending, completed: two sleeps, then the download
C14_Witness ==
    /\ Len(reqs) = 5
    /\ reqs[2].resp = "pending"
    /\ reqs[3].resp = "pending"
    /\ reqs[4].resp = "completed"
    /\ reqs[5].kind = "bk_download"
    /\ sleeps = <<5, 10>>

RECURSIVE Pow2(_)
Pow2(n) == IF n = 0 THEN 1 ELSE 2 * Pow2(n - 1)

\* C15: the k-th sleep of the polling loop lasts min(5 * 2^(k-1), 30)
\* seconds: 5, 10, 20, 30, 30, ...
C15_BackoffIntervals ==
    \A k \in 1..Len(sleeps) :
        sleeps[k] = IF 5 * Pow2(k - 1) < 30 THEN 5 * Pow2(k - 1) ELSE 30

\* the loop has slept five times: the interval has reached the cap and has
\* stayed there
C15_Witness ==
    /\ Len(sleeps) >= 5
    /\ SubSeq(sleeps, 1, 5) = <<5, 10, 20, 30, 30>>

RECURSIVE Sum(_)
Sum(q) == IF q = <<>> THEN 0 ELSE Head(q) + Sum(Tail(q))

\* Target answers every poll of the job with a status that is not done.
NeverCompletes == job.left = -1
TimedOut == Lines(TimeoutLine) # {}

\* What holds at every moment of the polling of such a job, and once it has
\* timed out.
TimeoutSafety ==
    /\ pc = "bk_status" => elapsed < 300
    /\ pc \in {"bk_loop", "bk_status"} => Sum(sleeps) <= elapsed
    /\ TimedOut =>
           /\ bkResult = "False"
           /\ pc = "done"
           /\ LastLine = HaltedLine
           /\ Sum(sleeps) + 30 * Cardinality(NotDone) >= 300
           /\ Downloads = {}
           /\ files = <<>>
           /\ \A i \in ReqIdx : reqs[i].kind \in {"bk_create", "bk_status"}
    /\ (NeverCompletes /\ bkResult = "True") => ~config.backupPath
    /\ (/\ NeverCompletes
        /\ JobCreated
        /\ pc \notin BkPcs
        /\ ~EvCancelled
        /\ \A i \in ReqIdx : ~Failed(reqs[i])) => TimedOut

\* C16: no status GET starts once 300 seconds have passed since the polling
\* began; the polling of a job that Target never reports done ends, with no
\* download request issued and no backup file written: perform_tmx_backup
\* returns False, by running into the deadline when every status GET was
\* answered and the run was not cancelled.
C16_AllPendingTimesOut ==
    /\ []TimeoutSafety
    /\ (NeverCompletes /\ pc = "bk_loop") ~>
           (/\ pc = "done"
            /\ Downloads = {}
            /\ files = <<>>
            /\ bkResult = "False" \/ EvCancelled)

\* twelve polls answered pending, then the deadline
C16_Witness ==
    /\ TimedOut
    /\ NeverCompletes
    /\ job.says = "pending"
    /\ Len(sleeps) = 12
    /\ Sum(sleeps) = 305

\* The status responses with answer a.
Answered(a) == {i \in ReqIdx : reqs[i].kind = "bk_status" /\ reqs[i].resp = a}

\* perform_tmx_backup returned False on request i: it is the last request of
\* the run, no sleep came after it, no file was written and the run was
\* halted with the given line logged before the halt.
ReturnedFalseOn(i, line) ==
    /\ i = Len(reqs)
    /\ Len(sleeps) = Cardinality({j \in NotDone : j < i})
    /\ Downloads = {}
    /\ files = <<>>
    /\ bkResult = "False"
    /\ pc = "done"
    /\ LastLine = HaltedLine
    /\ Len(log) >= 2
    /\ log[Len(log) - 1] = line
    /\ \A j \in ReqIdx : reqs[j].kind \notin SyncKinds

\* C17: a status response that reports the job failed is the last request
\* of the run: perform_tmx_backup returns False at once, without a sleep, a
\* further poll, a download or a file, and the run is halted before any
\* Source request.
C17_FailedJobReturnsAtOnce ==
    \A i \in Answered("failed") :
        ReturnedFalseOn(i, "error:Transifex reported the backup job failed.")

\* the job failed after two polls that found it pending; a Source with
\* items was waiting
C17_Witness ==
    /\ Answered("failed") = {4}
    /\ Answered("pending") = {2, 3}
    /\ sleeps = <<5, 10>>
    /\ src.templates # <<>>

WriteFailedLine == "error:An unexpected error occurred during TMX backup polling"

C19_UnexpectedContentType ==
    \A i \in Answered("html") :
        ReturnedFalseOn(i,
            "error:Unexpected content type received during TMX backup polling")

\* a text/html page came after a poll that found the job pending
C19_Witness ==
    /\ Answered("html") = {3}
    /\ Answered("pending") = {2}
    /\ sleeps = <<5>>
    /\ pc = "done"

\* C20: a backup-creation request that fails (no answer, an error status, or
\* a document without a job id) is the only request of the run:
\* perform_tmx_backup returns False without a status poll, a sleep or a
\* file, and the run is halted with no Source request.
C20_CreationFailureAborts ==
    \A i \in ReqIdx :
        (reqs[i].kind = "bk_create" /\ reqs[i].resp # "200") =>
            /\ reqs[i].resp \in {"neterr", "500", "200 without id"}
            /\ Len(reqs) = 1
            /\ sleeps = <<>>
            /\ files = <<>>
            /\ bkResult = "False"
            /\ pc = "done"
            /\ LastLine = HaltedLine
            /\ log[Len(log) - 1] \in
                   {"fatal:A network error occurred",
                    "fatal:An unexpected error occurred starting TMX backup job"}

\* the creation was answered with a document that has no job id, while a
\* Source with items was waiting
C20_Witness ==
    /\ Len(reqs) = 1
    /\ reqs[1].kind = "bk_create"
    /\ reqs[1].resp = "200 without id"
    /\ bkResult = "False"
    /\ src.templates # <<>>

\* A run whose backup was cancelled: what holds from then on.
BackupCancelledState ==
    EvCancelled =>
        /\ cancel
        /\ pc = "done"
        /\ bkResult = "not called"
        /\ files = <<>>
        /\ Downloads = {}
        /\ LastLine = BkCancelLine
        /\ Lines(HaltedLine) = {}
        /\ Cardinality(Lines(BkCancelLine)) = 1

\* C21: a poll iteration that begins with the token set issues no status
\* GET: the step raises the cancellation, so perform_tmx_backup returns
\* nothing (neither True nor False), no backup file is written, and the run
\* ends with the cancellation line, not with the backup-failure line.
C21_CancelAtPollStart ==
    /\ []BackupCancelledState
    /\ [][ (pc = "bk_loop" /\ cancel /\ elapsed < 300) =>
              /\ reqs' = reqs
              /\ sleeps' = sleeps
              /\ files' = files
              /\ bkResult' = "not called"
              /\ pc' = "done"
              /\ log' = Append(log, BkCancelLine)
          ]_vars

\* the token was set while the first status GET was in flight; the job was
\* pending, and the next iteration raised the cancellation
C21_Witness ==
    /\ EvCancelled
    /\ cancelMark.pc = "bk_status"
    /\ Len(reqs) = 2
    /\ reqs[2].kind = "bk_status"
    /\ reqs[2].resp = "pending"
    /\ sleeps = <<5>>

SyncCancelLine == "cancelled:Sync process was cancelled by the user."

\* C22 (as claimed): every cancellation the top level logs, whether it was
\* raised in a backup poll iteration or at a step of the sync, carries the
\* one message "Sync process was cancelled by the user."
C22_OneCancelMessage ==
    \A i \in 1..Len(log) : log[i] \in CancelLines => log[i] = SyncCancelLine

\* The lines logged at the error or the fatal level.
PathLine == "error:Backup path is not defined. Skipping backup."
ErrorLines ==
    {PathLine, TimeoutLine, WriteFailedLine,
     "error:Transifex reported the backup job failed.",
     "error:Received invalid JSON while checking TMX backup status.",
     "error:Unexpected content type received during TMX backup polling",
     "fatal:An unexpected error occurred starting TMX backup job",
     "fatal:A network error occurred",
     "fatal:A network error occurred while checking backup status",
     "fatal:An API error occurred.",
     "error:Request URL", "error:Response Error Details", "error:Response Content",
     "fatal:An unexpected error occurred"}
        \cup {StatusCodeLine(c) : c \in ErrorStatuses}
        \cup {MissingKeyLine(k) : k \in ShapeKeys}

CancelledRun == \E i \in 1..Len(log) : log[i] \in CancelLines

\* The cancellation line is the one cancellation line and the last line of
\* the log, the run has ended and has not reported completion.
CancelledRunEnded ==
    /\ Cardinality({i \in 1..Len(log) : log[i] \in CancelLines}) = 1
    /\ LastLine \in CancelLines
    /\ pc = "done"
    /\ Lines("Sync Complete") = {}
    /\ Lines(HaltedLine) = {}

\* C23 (as claimed): a cancelled run has logged the cancellation line as its
\* last line, has ended without reporting completion, and its log holds no
\* line of the error or the fatal level.
C23_NoErrorLineAtAll ==
    CancelledRun =>
        /\ CancelledRunEnded
        /\ \A j \in 1..Len(log) : log[j] \notin ErrorLines

\* C23 (amended): a cancelled run has logged the cancellation line as its
\* last line and has ended without reporting completion; the step that
\* detects the cancellation issues no request and changes nothing in Target,
\* and nothing happens after it; the only line of the error or fatal level
\* its log can hold is the "Backup path is not defined" line of a backup that
\* was skipped, earlier in the run, for want of a path.
C23_CancelledRunIsClean ==
    /\ [](CancelledRun =>
             /\ CancelledRunEnded
             /\ \A j \in 1..Len(log) :
                    log[j] \in ErrorLines =>
                        /\ log[j] = PathLine
                        /\ config.backupEnabled
                        /\ ~config.backupPath)
    /\ [][ CancelledRun' =>
              /\ reqs' = reqs
              /\ tx' = tx
              /\ txContent' = txContent
              /\ files' = files
              /\ CancelledRun => log' = log
          ]_vars

\* the run was cancelled while the second item was in progress, after the
\* first item's content had been uploaded
C23_Witness ==
    /\ LastLine = SyncCancelLine
    /\ cancelMark.idx = 2
    /\ \E i \in ReqIdx : reqs[i].kind = "upload" /\ ~Failed(reqs[i])
    /\ pc = "done"

\* The position from which the first request of a network call group is
\* issued, and the position of the token check in front of it.
CheckBefore ==
    [list_get |-> "list_chk", det_get |-> "det_chk", res_get |-> "res_chk",
     up_post |-> "up_chk", bk_status |-> "bk_loop"]
GroupHeads == DOMAIN CheckBefore
TokenReads ==
    {"start_chk", "phase_chk", "list_chk", "item_chk", "det_chk", "res_chk",
     "up_chk", "bk_loop"}
RequestPcs == GroupHeads \cup {"res_post", "res_patch", "bk_create", "bk_download"}

\* C24: the run comes to the first request of a call group (a list page, an
\* item's detail, its resource GET, its upload, a status GET of the backup)
\* only by the token check in front of it, which found the token unset;
\* a cancellation is raised only by a step that reads the token at such a
\* boundary, and a request that is due is issued even when the token was set
\* in the meantime.
C24_TokenCheckedAtBoundaries ==
    [][ /\ (pc' \in GroupHeads /\ pc' # pc) =>
               (pc = CheckBefore[pc'] /\ ~cancel /\ reqs' = reqs)
        /\ (log' # log /\ LastLine' \in CancelLines) =>
               (pc \in TokenReads /\ cancel /\ reqs' = reqs)
        /\ reqs' # reqs =>
               (pc \in RequestPcs /\ Len(reqs') = Len(reqs) + 1)
        /\ (pc \in RequestPcs /\ cancel) =>
               (Len(reqs') = Len(reqs) + 1 /\ LastLine' \notin CancelLines)
      ]_vars

\* the token was set while the second list page was due: the page was
\* requested all the same, and the check in front of the first item raised
\* the cancellation
C24_Witness ==
    /\ cancelMark.set
    /\ cancelMark.pc = "list_get"
    /\ cancelMark.at = 1
    /\ Len(reqs) = 2
    /\ reqs[2].kind = "list"
    /\ reqs[2].offset = 100
    /\ reqs[2].resp = "200"
    /\ LastLine = SyncCancelLine

UnexpectedLine == "fatal:An unexpected error occurred"

\* C25 (as claimed): a progress callback that raises does not change what
\* the run does: the run is not ended by it, so a run in which the callback
\* has raised has not stopped with the fatal line of an unexpected error.
C25_CallbackFailureHarmless ==
    cbRaised => ~(pc = "done" /\ LastLine = UnexpectedLine)

\* The kinds of request the core issues: GET, POST and PATCH, no DELETE.
KnownKinds ==
    {"bk_create", "bk_status", "bk_download", "list", "detail", "res_get",
     "res_post", "res_patch", "upload"}

\* What holds of every request in the history.
SlugFromItemId ==
    \A i \in ReqIdx :
        /\ reqs[i].kind \in KnownKinds
        /\ reqs[i].kind \in ResourceKinds \cup {"upload"} =>
               reqs[i].slug = EntryOf(reqs[i]).id
        /\ reqs[i].kind \in {"res_post", "res_patch"} =>
               /\ reqs[i].name = EntryOf(reqs[i]).name
               /\ reqs[i].content = NoContent
        /\ reqs[i].kind = "upload" => reqs[i].name = ""

\* C26: the core issues no request that deletes a resource or changes a
\* slug: every resource request and every upload of an item addresses the
\* slug that is the item's id, the create POST carries that slug and the
\* item's name, the PATCH carries the name only, and a resource that Target
\* holds stays there, under its slug, at every step.
C26_SlugsPermanent ==
    /\ []SlugFromItemId
    /\ [][ \A sl \in Slugs :
              /\ tx[sl] # NoRes => tx'[sl] # NoRes
              /\ tx'[sl] # tx[sl] =>
                     /\ Len(reqs') = Len(reqs) + 1
                     /\ reqs'[Len(reqs')].kind \in {"res_post", "res_patch"}
                     /\ reqs'[Len(reqs')].slug = sl
                     /\ tx'[sl] = reqs'[Len(reqs')].name
          ]_vars

\* one resource was created and another renamed, and content was uploaded
C26_Witness ==
    /\ \E i \in ReqIdx : reqs[i].kind = "res_post" /\ ~Failed(reqs[i])
    /\ \E i \in ReqIdx : reqs[i].kind = "res_patch" /\ ~Failed(reqs[i])
    /\ \E i \in ReqIdx : reqs[i].kind = "upload" /\ ~Failed(reqs[i])

SourceReqs == {i \in ReqIdx : reqs[i].kind \in SourceKinds}

\* C27 (as claimed): with backup enabled, a run that has issued a Source
\* request has persisted a backup file.
C27_BackupBeforeSource ==
    (config.backupEnabled /\ SourceReqs # {}) => files # <<>>

\* C27 (amended): with backup enabled and a backup path configured, a
\* Source request is issued only when perform_tmx_backup has returned True
\* and the backup file of the run is written: the file is there before the
\* step that issues the request, and it is the one file of the run.
C27_BackupBeforeSourceWithPath ==
    /\ []((config.backupEnabled /\ config.backupPath /\ SourceReqs # {}) =>
             /\ Len(files) = 1
             /\ bkResult = "True"
             /\ Lines("SUCCESS: Backup saved") # {})
    /\ [][ (/\ config.backupEnabled
            /\ config.backupPath
            /\ \E r \in NewReqs : r.kind \in SourceKinds) =>
               (Len(files) = 1 /\ files' = files)
          ]_vars

\* the backup was downloaded and saved, and the sync listed the email
\* templates and fetched an item's details
C27_Witness ==
    /\ config.backupEnabled
    /\ config.backupPath
    /\ files = <<"download body">>
    /\ \E i \in ReqIdx : reqs[i].kind = "detail"

BkKinds == {"bk_create", "bk_status", "bk_download"}
BkReqs == {i \in ReqIdx : reqs[i].kind \in BkKinds}
ProceedLine == "--- TMX Backup complete. Proceeding with sync. ---"
NoPath == config.backupEnabled /\ ~config.backupPath

\* C28: with backup enabled and no backup path, perform_tmx_backup logs
\* the error, issues no request, writes no file and returns True: the step
\* that calls it takes the run to the email templates, and the run is never
\* halted for a backup failure.
C28_NoPathSkipsBackup ==
    /\ [](NoPath =>
             /\ BkReqs = {}
             /\ files = <<>>
             /\ sleeps = <<>>
             /\ bkResult \in {"not called", "True"}
             /\ Lines(HaltedLine) = {}
             /\ SourceReqs # {} => bkResult = "True"
             /\ bkResult = "True" =>
                    (Cardinality(Lines(PathLine)) = 1 /\ Lines(ProceedLine) # {}))
    /\ [][ (NoPath /\ pc = "bk_begin" /\ pc' # pc) =>
               /\ bkResult' = "True"
               /\ pc' = "phase_chk"
               /\ reqs' = reqs
               /\ log' = log \o <<"--- Starting TMX Backup ---", PathLine, ProceedLine>>
          ]_vars

\* the backup was skipped for want of a path and the sync ran to its end
C28_Witness ==
    /\ NoPath
    /\ bkResult = "True"
    /\ \E i \in ReqIdx : reqs[i].kind = "upload"
    /\ LastLine = "Sync Complete"

\* C29: with backup disabled the run issues no backup request, starts no
\* poll, writes no file and never calls perform_tmx_backup: the start of
\* the run leads straight to the email templates, and the first request of
\* the run is the first list request.
C29_DisabledBackupNeverStarts ==
    /\ [](~config.backupEnabled =>
             /\ BkReqs = {}
             /\ files = <<>>
             /\ sleeps = <<>>
             /\ bkResult = "not called"
             /\ pc \notin BkPcs
             /\ Lines("--- Starting TMX Backup ---") = {}
             /\ reqs # <<>> =>
                    (reqs[1].kind = "list" /\ reqs[1].phase = 1 /\ reqs[1].offset = -1))
    /\ [][ (~config.backupEnabled /\ pc = "start_chk" /\ pc' \notin {pc, "done"}) =>
               /\ pc' = "phase_chk"
               /\ reqs' = reqs
               /\ log' = Append(log, "TMX backup is disabled. Skipping.")
          ]_vars

\* backup disabled: the run listed and processed the items to the end
C29_Witness ==
    /\ ~config.backupEnabled
    /\ Lines("TMX backup is disabled. Skipping.") # {}
    /\ \E i \in ReqIdx : reqs[i].kind = "upload"
    /\ LastLine = "Sync Complete"

\* The stage of the run a request belongs to, and its place within an item.
Stage(r) ==
    CASE r.kind \in BkKinds -> 0
      [] r.kind = "list" -> 2 * r.phase - 1
      [] OTHER -> 2 * r.phase
StepOf(r) ==
    CASE r.kind = "detail" -> 1
      [] r.kind = "res_get" -> 2
      [] r.kind \in {"res_post", "res_patch"} -> 3
      [] OTHER -> 4

\* create_or_update_transifex_resource returned for the item of request r.
Ensured(r, before) ==
    /\ \E j \in ReqIdx :
           /\ j < before
           /\ SameItem(reqs[j], r)
           /\ reqs[j].kind = "res_get"
           /\ reqs[j].resp \in {"200", "404", "204"}
    /\ \A j \in ReqIdx :
           (SameItem(reqs[j], r) /\ reqs[j].kind \in ResourceKinds) =>
               (j < before /\ ~Failed(reqs[j]))
    /\ \A j \in ReqIdx :
           (/\ SameItem(reqs[j], r)
            /\ reqs[j].kind = "res_get"
            /\ reqs[j].resp = "404") =>
               (j + 1 < before /\ reqs[j + 1].kind = "res_post")

\* Request q may come right after request r: the stage does not go back,
\* within the items of a stage the position in the list does not go back,
\* and within an item the step goes forward.  (The relation is transitive, so
\* it orders every two requests of the history.)
Follows(r, q) ==
    /\ Stage(r) <= Stage(q)
    /\ (Stage(r) = Stage(q) /\ r.kind \in ItemKinds) =>
           /\ r.idx <= q.idx
           /\ r.idx = q.idx => StepOf(r) < StepOf(q)

\* C30: the requests of a run are in one order: the backup's requests, then
\* the email-template list, then the templates one after the other, then the
\* content-block list, then the blocks; the Source requests begin only after
\* an enabled backup has returned True; for each item the detail GET comes
\* first, then the resource GET with its create POST or PATCH, then the
\* upload, which is issued only when the detail GET succeeded and
\* create_or_update_transifex_resource has returned without raising.
C30_TotalOrder ==
    /\ \A i \in ReqIdx :
           i < Len(reqs) => Follows(reqs[i], reqs[i + 1])
    /\ (config.backupEnabled /\ \E i \in ReqIdx : Stage(reqs[i]) > 0) =>
           bkResult = "True"
    /\ \A i \in ReqIdx :
           /\ reqs[i].kind \in ItemKinds =>
                  \E j \in ReqIdx :
                      /\ j < i
                      /\ reqs[j].kind = "list"
                      /\ reqs[j].phase = reqs[i].phase
                      /\ reqs[j].resp = "200"
           /\ reqs[i].kind \in ResourceKinds \cup {"upload"} =>
                  \E j \in ReqIdx :
                      /\ j < i
                      /\ SameItem(reqs[j], reqs[i])
                      /\ reqs[j].kind = "detail"
                      /\ reqs[j].resp = "200"
           /\ reqs[i].kind = "upload" => Ensured(reqs[i], i)

\* after the backup, a template and a content block each went through
\* detail GET, resource GET and create POST, and content was uploaded
C30_Witness ==
    /\ config.backupEnabled
    /\ BkReqs # {}
    /\ LastLine = "Sync Complete"
    /\ \A ph \in {1, 2} :
           \E i \in ReqIdx : reqs[i].kind = "res_post" /\ reqs[i].phase = ph
    /\ \E i \in ReqIdx :
           reqs[i].kind = "upload" /\ CountKind(reqs[i], "res_post") = 1

\* A list entry without an id or without a name.
Incomplete(e) == e.id \in {NoneVal, ""} \/ e.name \in {NoneVal, ""}

LackingField ==
    [r \in {"200 without the list key", "200 without name", "200 without data",
            "200 without id", "completed without link", "no status"} |->
        CASE r = "200 without the list key" -> "templates"
          [] r = "200 without name" -> "name"
          [] r = "200 without data" -> "data"
          [] r = "200 without id" -> "id"
          [] r = "completed without link" -> "links"
          [] OTHER -> "status"]

KeyLine(k) ==
    "fatal:Received an unexpected API response. Missing expected key: '" \o k \o "'"
KeyLines == {KeyLine(LackingField[r]) : r \in DOMAIN LackingField}

\* A details document without one of the fields its item type declares.
SparseAnswer(r) ==
    /\ r.kind = "detail"
    /\ r.resp = "200"
    /\ \E f \in DeclaredFields(r) : f \notin DOMAIN srcDetails[r.slug]

\* C32 (as claimed): a response that lacks an expected field is the last
\* request of the run, which ends with the fatal line that names the field.
C32_MissingFieldIsFatal ==
    \A i \in ReqIdx :
        (reqs[i].resp \in DOMAIN LackingField \/ SparseAnswer(reqs[i])) =>
            /\ i = Len(reqs)
            /\ pc = "done"
            /\ LastLine \in KeyLines

BkShapeLines ==
    {"fatal:An unexpected error occurred starting TMX backup job",
     "error:An unexpected error occurred during TMX backup polling"}

\* C32 (amended): a resource GET answered 200 with a document that lacks the
\* name (or the data that holds it) is the last request of the run, which
\* ends with the one fatal line that names the missing key, and no other
\* response makes the run log such a line; a backup response that lacks the
\* job id or the download link makes perform_tmx_backup log the error and
\* return False, so the run halts with no further request; a list document
\* without its list key, a details document without a declared field and a
\* status document without a status make the run log no missing-key line.
C32_MissingNameIsFatal ==
    /\ \A i \in ReqIdx :
           (reqs[i].kind = "res_get"
               /\ reqs[i].resp \in {"200 without name", "200 without data"}) =>
               /\ i = Len(reqs)
               /\ pc = "done"
               /\ LastLine = KeyLine(LackingField[reqs[i].resp])
               /\ Cardinality({j \in 1..Len(log) : log[j] \in KeyLines}) = 1
               /\ tx[reqs[i].slug] # NoRes
    /\ (\E j \in 1..Len(log) : log[j] \in KeyLines) =>
           /\ reqs # <<>>
           /\ reqs[Len(reqs)].kind = "res_get"
           /\ reqs[Len(reqs)].resp \in {"200 without name", "200 without data"}
    /\ \A i \in ReqIdx :
           reqs[i].resp \in {"200 without id", "completed without link"} =>
               /\ i = Len(reqs)
               /\ pc = "done"
               /\ bkResult = "False"
               /\ LastLine = HaltedLine
               /\ log[Len(log) - 1] \in BkShapeLines
               /\ files = <<>>

\* the second item's resource document had no data at all, after the first
\* item's content had been uploaded
C32_Witness ==
    /\ Len(reqs) > 3
    /\ reqs[Len(reqs)].kind = "res_get"
    /\ reqs[Len(reqs)].resp = "200 without data"
    /\ reqs[Len(reqs)].idx = 2
    /\ LastLine = KeyLine("data")
    /\ \E i \in ReqIdx : reqs[i].kind = "upload" /\ ~Failed(reqs[i])

\* A list request answered with a document that has no list key.
KeyLess(r) == r.kind = "list" /\ r.resp = "200 without the list key"

\* The entries of the pages that came before the page request r asked for.
Before(r) == IF r.offset > 0 THEN r.offset ELSE 0

\* C33: a list response without the collection key adds no entry: no further
\* page of the collection is requested, no item beyond the entries of the
\* pages before it is processed (none at all when it is the first page),
\* and no missing-key line is logged for it (the only such line a run can
\* log is that of a later resource GET); the step that receives it goes on to
\* the entries of the earlier pages or, when there are none, to the next
\* collection or to "Sync Complete".
C33_MissingListKeyIsEmpty ==
    /\ [](\A i \in ReqIdx :
             KeyLess(reqs[i]) =>
                 /\ \A j \in ReqIdx :
                        (j > i /\ reqs[j].kind = "list") => reqs[j].phase > reqs[i].phase
                 /\ \A j \in ReqIdx :
                        (reqs[j].kind \in ItemKinds /\ reqs[j].phase = reqs[i].phase) =>
                            reqs[j].idx <= Before(reqs[i])
                 /\ \A j \in 1..Len(log) :
                        log[j] \in KeyLines =>
                            /\ log[j] # KeyLine("templates")
                            /\ reqs[Len(reqs)].kind = "res_get")
    /\ [][ (/\ pc = "list_get"
            /\ Len(reqs') = Len(reqs) + 1
            /\ KeyLess(reqs'[Len(reqs')])) =>
              /\ items' = allItems
              /\ IF allItems # <<>>
                 THEN pc' = "item_chk" /\ idx' = 1 /\ phase' = phase /\ log' = log
                 ELSE IF phase = 1
                      THEN pc' = "phase_chk" /\ phase' = 2 /\ log' = log
                      ELSE pc' = "done" /\ log' = Append(log, "Sync Complete")
          ]_vars

\* the second page of the email templates and the list of the content
\* blocks came without their key: the run made these three requests and
\* completed, although Source holds two content blocks
C33_Witness ==
    /\ Len(reqs) = 3
    /\ reqs[1].resp = "200"
    /\ KeyLess(reqs[2])
    /\ reqs[2].offset = 100
    /\ KeyLess(reqs[3])
    /\ reqs[3].phase = 2
    /\ Len(src.blocks) = 2
    /\ pc = "done"
    /\ LastLine = "Sync Complete"

\* The run has ended on a request that was answered with an error status.
EndedOnErrorStatus ==
    /\ pc = "done"
    /\ reqs # <<>>
    /\ reqs[Len(reqs)].resp \in {"500", "503", "429", "409"}

\* The error statuses whose body is an HTML page, which does not parse.
HtmlBodies == {"503"}

\* The report of the error status c: its status code line, and the parsed
\* details of a body that parses or else the raw text.
Reported(c) ==
    /\ \E j \in 1..Len(log) : log[j] = "error:Response Status Code: " \o c
    /\ \E j \in 1..Len(log) :
           log[j] = IF c \in HtmlBodies THEN "error:Response Content"
                    ELSE "error:Response Error Details"
    /\ \A j \in 1..Len(log) :
           log[j] # IF c \in HtmlBodies THEN "error:Response Error Details"
                    ELSE "error:Response Content"

\* C34 (as claimed): when a run has ended on an HTTP error status, its log
\* holds the response's status code and the error details: the parsed body
\* if the body parses, the raw response text otherwise.
C34_ErrorStatusReported ==
    EndedOnErrorStatus => Reported(reqs[Len(reqs)].resp)

\* C35 (as claimed): a Source request answered 429 does not end the run:
\* after the wait the same request is issued again, so a run that has ended
\* has made that request once more right after the 429, and its log holds no
\* report of a 429 as an API error.
C35_RateLimitRetried ==
    \A i \in ReqIdx :
        (reqs[i].kind \in SourceKinds /\ reqs[i].resp = "429") =>
            /\ Lines("error:Response Status Code: 429") = {}
            /\ pc = "done" =>
                   /\ i < Len(reqs)
                   /\ reqs[i + 1].kind = reqs[i].kind
                   /\ reqs[i + 1].offset = reqs[i].offset
                   /\ reqs[i + 1].slug = reqs[i].slug

\* The lines with which an except clause of the top level reports a failure:
\* the first line of each report, and the line each report ends with.
FailureHeads ==
    {"fatal:An API error occurred.", "fatal:An unexpected error occurred"} \cup KeyLines
FailureEnds ==
    {"fatal:A network error occurred", "error:Response Error Details",
     "error:Response Content", "fatal:An unexpected error occurred"} \cup KeyLines

\* The terminal outcomes the log shows.  The network-error line is also what
\* a failed backup logs before the run is halted: it shows a fatal outcome
\* only as the last line.
Outcomes ==
    (IF Lines("Sync Complete") # {} THEN {"complete"} ELSE {}) \cup
    (IF Lines(HaltedLine) # {} THEN {"halted"} ELSE {}) \cup
    (IF \E j \in 1..Len(log) : log[j] \in CancelLines THEN {"cancelled"} ELSE {}) \cup
    (IF \/ \E j \in 1..Len(log) : log[j] \in FailureHeads
        \/ LastLine = "fatal:A network error occurred"
     THEN {"fatal"} ELSE {})

OutcomeLines == {"Sync Complete", HaltedLine} \cup CancelLines \cup FailureHeads

\* The positions of a collection that its served list pages held.
ListedIdx(ph) ==
    {k \in 1..Len(Coll(ph)) :
        \E i \in ListReqs(ph) :
            /\ reqs[i].resp = "200"
            /\ Before(reqs[i]) < k
            /\ k <= Before(reqs[i]) + PageLimit}

Done(ph, k, kind) ==
    \E i \in ReqIdx :
        /\ reqs[i].phase = ph
        /\ reqs[i].idx = k
        /\ reqs[i].kind = kind
        /\ ~Failed(reqs[i])

\* The listed entry was passed over for want of an id or a name, or its
\* details were fetched, its resource looked up and, unless every declared
\* field is blank, its content uploaded.
Handled(ph, k) ==
    \/ Incomplete(Coll(ph)[k])
    \/ /\ Done(ph, k, "detail")
       /\ Done(ph, k, "res_get")
       /\ ~AllBlank(srcDetails[Coll(ph)[k].id], ph) => Done(ph, k, "upload")

\* C36: a run that has ended shows exactly one terminal outcome (complete,
\* halted by the backup, cancelled, fatal), logged once and as the end of
\* its log, and a run that has not ended shows none: every exception raised
\* in the run is turned into one of these inside sync_logic_main.  "Sync
\* Complete" is logged only when the backup, if enabled, returned True, no
\* request failed, the run was not cancelled, the progress callback did not
\* raise, and every entry the list pages held was handled.
C36_OneTerminalOutcome ==
    /\ pc = "done" =>
           /\ Cardinality(Outcomes) = 1
           /\ Cardinality({j \in 1..Len(log) : log[j] \in OutcomeLines}) <= 1
           /\ "complete" \in Outcomes => LastLine = "Sync Complete"
           /\ "halted" \in Outcomes => LastLine = HaltedLine
           /\ "cancelled" \in Outcomes => LastLine \in CancelLines
           /\ "fatal" \in Outcomes => LastLine \in FailureEnds
    /\ pc # "done" => Outcomes = {}
    /\ "complete" \in Outcomes =>
           /\ pc = "done"
           /\ config.backupEnabled => bkResult = "True"
           /\ ~config.backupEnabled => bkResult = "not called"
           /\ \A i \in ReqIdx : ~Failed(reqs[i])
           /\ ~cbRaised
           /\ \A ph \in {1, 2} :
                  /\ ListReqs(ph) # {}
                  /\ \A k \in ListedIdx(ph) : Handled(ph, k)

\* a run with backup completed: the file was written, both collections were
\* listed and an item's content was uploaded
C36_Witness ==
    /\ pc = "done"
    /\ Outcomes = {"complete"}
    /\ files # <<>>
    /\ Len(src.blocks) = 2
    /\ \E i \in ReqIdx : reqs[i].kind = "upload"

\* C37: a run writes at most one backup file, and only with content it has
\* obtained: the body of a download that succeeded after a completed status,
\* or the body of a status answer that was the file itself; the content
\* request is the last request of the backup.  A backup that failed, timed
\* out or was cancelled, one whose download request failed and one that
\* returned False have written no file.
C37_FileWrittenOnceWithContent ==
    /\ Len(files) <= 1
    /\ files # <<>> =>
           /\ bkResult = "True"
           /\ BkReqs # {}
           /\ LET last == reqs[CHOOSE i \in BkReqs : \A j \in BkReqs : j <= i] IN
              \/ /\ files[1] = "download body"
                 /\ last.kind = "bk_download"
                 /\ last.resp = "200"
                 /\ Answered("completed") # {}
              \/ /\ files[1] = "status body"
                 /\ last.kind = "bk_status"
                 /\ last.resp = "file"
                 /\ Downloads = {}
    /\ (EvFailed \/ EvTimedOut \/ EvCancelled) => files = <<>>
    /\ (\E i \in Downloads : reqs[i].resp # "200") => files = <<>>
    /\ bkResult # "True" => files = <<>>

\* the job was pending once and then completed, the download succeeded and
\* the one file holds its body; the sync went on to the lists and the token
\* was set
C37_Witness ==
    /\ files = <<"download body">>
    /\ sleeps = <<5>>
    /\ cancel
    /\ \E i \in ReqIdx : reqs[i].kind = "list"

\* The requests issued since the token was set.
AfterToken == {i \in ReqIdx : i > cancelMark.at}

\* The positions at which the next step reads the token or the run is over.
Boundary ==
    {"start_chk", "phase_chk", "list_chk", "item_chk", "det_chk", "res_chk",
     "up_chk", "bk_loop", "bk_write", "done"}

\* C38: once the token is set the run issues at most two more requests.
\* Two are issued only when the call group in progress has a second
\* request: the resource GET with the create POST or the PATCH of the same
\* item, or the status GET that found the job completed with the download;
\* after them, and after a single request that is not followed by such a
\* second one, the run stands at a token check or has ended.  A token set
\* before the run starts allows no request.
C38_TwoMoreRequestsAtMost ==
    cancelMark.set =>
        /\ Cardinality(AfterToken) <= 2
        /\ cancelMark.pc = "before the run" => AfterToken = {}
        /\ Cardinality(AfterToken) = 2 =>
               LET a == reqs[cancelMark.at + 1]
                   b == reqs[cancelMark.at + 2]
               IN  /\ \/ /\ a.kind = "res_get"
                         /\ b.kind \in {"res_post", "res_patch"}
                         /\ SameItem(a, b)
                         /\ cancelMark.pc = "res_get"
                      \/ /\ a.kind = "bk_status"
                         /\ a.resp = "completed"
                         /\ b.kind = "bk_download"
                         /\ cancelMark.pc = "bk_status"
                   /\ pc \in Boundary
        /\ (Cardinality(AfterToken) = 1 /\ pc \notin Boundary) =>
               \/ pc \in {"res_post", "res_patch"} /\ reqs[Len(reqs)].kind = "res_get"
               \/ pc = "bk_download" /\ reqs[Len(reqs)].kind = "bk_status"

\* the token was set when the resource GET was due: the GET found nothing,
\* the create POST followed, and the check in front of the upload ended the
\* run
C38_Witness ==
    /\ cancelMark.set
    /\ cancelMark.pc = "res_get"
    /\ Cardinality(AfterToken) = 2
    /\ reqs[Len(reqs)].kind = "res_post"
    /\ reqs[Len(reqs)].resp = "201"
    /\ pc = "done"
    /\ LastLine = SyncCancelLine

\* The status documents whose status is none of pending, completed, failed.
OtherWords == {"unknown status", "no status"}
Other == {i \in ReqIdx : reqs[i].kind = "bk_status" /\ reqs[i].resp \in OtherWords}

\* C39: a status document with an unknown status or with none is handled as
\* a pending one: the step that receives it logs nothing, returns nothing,
\* sleeps for the current interval, doubles the interval up to the cap and
\* goes back to the head of the loop; the next request after it, if any, is
\* another status GET.  A job that keeps answering so ends only by the
\* deadline or by cancellation, without a download and without a file.
C39_OtherStatusIsPending ==
    /\ [](/\ \A i \in Other :
                /\ i < Len(reqs) => reqs[i + 1].kind = "bk_status"
                /\ (i = Len(reqs) /\ pc = "done") => (EvTimedOut \/ EvCancelled)
                /\ i = Len(reqs) => pc \in {"bk_loop", "bk_status", "done"}
          /\ Len(sleeps) = Cardinality(NotDone)
          /\ (/\ job.left = -1
              /\ job.says \in OtherWords
              /\ pc = "done"
              /\ JobCreated
              /\ \A i \in ReqIdx : reqs[i].kind = "bk_status" => reqs[i].resp \in OtherWords) =>
                 /\ EvTimedOut \/ EvCancelled
                 /\ Downloads = {}
                 /\ files = <<>>)
    /\ [][ (/\ pc = "bk_status"
            /\ Len(reqs') = Len(reqs) + 1
            /\ reqs'[Len(reqs')].resp \in OtherWords) =>
              /\ pc' = "bk_loop"
              /\ sleeps' = Append(sleeps, pollInterval)
              /\ pollInterval' = (IF 2 * pollInterval < 30 THEN 2 * pollInterval ELSE 30)
              /\ elapsed' >= elapsed + pollInterval
              /\ log' = log
              /\ bkResult' = bkResult
              /\ files' = files
          ]_vars

\* a job whose status documents never had a status was polled, with the
\* intervals 5, 10, 20, 30, 30, ..., until the deadline ended the backup
C39_Witness ==
    /\ job.says = "no status"
    /\ job.left = -1
    /\ Cardinality(Other) > 5
    /\ Cardinality(Other) = Len(reqs) - 1
    /\ SubSeq(sleeps, 1, 5) = <<5, 10, 20, 30, 30>>
    /\ EvTimedOut
    /\ pc = "done"

\* ---------------------------------------------------------------- C40
\* The create POSTs for slug s, of either call.
Creates(s) == {i \in ReqIdx : reqs[i].kind = "res_post" /\ reqs[i].slug = s}

\* The create POSTs for slug s that Target answered itself: with a resource
\* created (201) or with a refusal of the slug (409).  A POST lost to a
\* server or network failure is not one of them.
Received(s) == {i \in Creates(s) : reqs[i].resp \in {"201", "409"}}

\* The request the call of request i sent just before it (0: none).
PrevOfRun(i) ==
    LET js == {j \in 1..(i - 1) : reqs[j].run = reqs[i].run}
    IN  IF js = {} THEN 0 ELSE CHOOSE j \in js : \A k \in js : k <= j

\* C40, as stated: when two calls of sync_logic_main run at the same time on
\* the same Target project and the same Source data, each slug receives at
\* most one create POST in total (a POST that failed on the way left aside).
C40_OneCreateInTotal ==
    \A s \in Slugs : Cardinality(Received(s)) <= 1

\* C40, amended: with two calls at the same time each call sends at most
\* one create POST per slug, and only right after its own resource GET for
\* that slug was answered 404.  Both calls can send one: the second does so
\* only if its GET was answered before the first one's POST created the
\* resource, Target creates the resource once and refuses the other POST
\* (or it fails), and the call whose POST was refused sends nothing more.
C40_OneCreatePerRun ==
    \A s \in Slugs :
        /\ \A i, k \in Creates(s) : reqs[i].run = reqs[k].run => i = k
        /\ \A i \in Creates(s) :
               /\ PrevOfRun(i) # 0
               /\ reqs[PrevOfRun(i)].kind = "res_get"
               /\ reqs[PrevOfRun(i)].slug = s
               /\ reqs[PrevOfRun(i)].resp = "404"
        /\ Cardinality({i \in Creates(s) : reqs[i].resp = "201"}) <= 1
        /\ \A i, k \in Creates(s) :
               (i < k /\ reqs[i].resp = "201") =>
                   /\ PrevOfRun(k) < i
                   /\ reqs[k].resp \in {"409"} \cup TargetFailures
        /\ \A k \in Creates(s) :
               reqs[k].resp = "409" =>
                   \A j \in ReqIdx : j > k => reqs[j].run # reqs[k].run

\* Both calls got a 404 for e1 and both sent the create POST: Target created
\* the resource for the first and refused the second, whose call has ended
\* with the report of the 409.
C40_Witness ==
    \E i, k \in Creates("e1") :
        /\ i < k
        /\ reqs[i].run # reqs[k].run
        /\ reqs[i].resp = "201"
        /\ reqs[k].resp = "409"
        /\ pc = "done"
        /\ run = reqs[k].run
        /\ Lines(StatusCodeLine("409")) # {}

====
